---- MODULE Spec2Model ----
(***************************************************************************)
(* A model of xcwrap's asset scanner (internal/assets/scanner.go) and of   *)
(* the `assets prune` command (internal/cli/assets.go).                    *)
(*                                                                         *)
(* Strings are sequences of byte values, so that the path and name         *)
(* operations of the code (suffix tests, filepath.Ext, strings.Index,      *)
(* splitting at '/', slices.Sort) are computed as the code computes them.  *)
(***************************************************************************)
EXTENDS Integers, Sequences, FiniteSets, TLC

(***************************************************************************)
(* Strings                                                                 *)
(***************************************************************************)

\* '/' : filepath.Separator
Slash == <<47>>

\* '.'
Dot == <<46>>

\* the empty string
Empty == <<>>

\* s[from..] and s[..to] with Go's 0-based, half-open indices: s[i:j]
Slice(s, i, j) == SubSeq(s, i + 1, j)

\* strings.HasPrefix
HasPrefix(s, p) == Len(p) <= Len(s) /\ SubSeq(s, 1, Len(p)) = p

\* strings.HasSuffix
HasSuffix(s, p) == Len(p) <= Len(s) /\ SubSeq(s, Len(s) - Len(p) + 1, Len(s)) = p

\* strings.Index: 0-based index of the first occurrence of sub in s, -1 if none
Index(s, sub) ==
    LET hits == {i \in 0..(Len(s) - Len(sub)) : Slice(s, i, i + Len(sub)) = sub}
    IN  IF hits = {} THEN -1 ELSE CHOOSE i \in hits : \A j \in hits : i <= j

\* strings.Contains
Contains(s, sub) == Index(s, sub) >= 0

\* strings.TrimSuffix
TrimSuffix(s, p) == IF HasSuffix(s, p) THEN SubSeq(s, 1, Len(s) - Len(p)) ELSE s

\* strings.TrimPrefix
TrimPrefix(s, p) == IF HasPrefix(s, p) THEN SubSeq(s, Len(p) + 1, Len(s)) ELSE s

\* strings.Compare(a, b) < 0 : byte-wise lexicographic order, the order of slices.Sort
RECURSIVE LessFrom(_, _, _)
LessFrom(a, b, i) ==
    IF i > Len(b) THEN FALSE
    ELSE IF i > Len(a) THEN TRUE
    ELSE IF a[i] # b[i] THEN a[i] < b[i]
    ELSE LessFrom(a, b, i + 1)

StrLess(a, b) == LessFrom(a, b, 1)

\* strings.Split(s, "/")
RECURSIVE SplitFrom(_, _, _)
SplitFrom(s, i, cur) ==
    IF i > Len(s) THEN <<cur>>
    ELSE IF s[i] = 47 THEN <<cur>> \o SplitFrom(s, i + 1, <<>>)
    ELSE SplitFrom(s, i + 1, Append(cur, s[i]))

SplitSlash(s) == SplitFrom(s, 1, <<>>)

\* the 1-based position of the last byte c in s, 0 if there is none
RECURSIVE LastPos(_, _, _)
LastPos(s, c, i) == IF i = 0 \/ s[i] = c THEN i ELSE LastPos(s, c, i - 1)

\* filepath.Base for the clean, non-empty paths of the model: the last element
Base(p) == SubSeq(p, LastPos(p, 47, Len(p)) + 1, Len(p))

\* filepath.Ext: the suffix beginning at the final dot in the final element
Ext(p) ==
    LET b == Base(p)
        dot == LastPos(b, 46, Len(b))
    IN  IF dot = 0 THEN Empty ELSE SubSeq(b, dot, Len(b))

\* filepath.Join(dir, name) for clean operands
Join(dir, name) == dir \o Slash \o name

\* the sorted list with one more string put in its place
RECURSIVE InsertSorted(_, _)
InsertSorted(sorted, x) ==
    IF sorted = <<>> THEN <<x>>
    ELSE IF StrLess(x, sorted[1]) THEN <<x>> \o sorted
    ELSE <<sorted[1]>> \o InsertSorted(Tail(sorted), x)

\* slices.Sort of a list of strings (an insertion sort; the result is the
\* ascending arrangement of the same multiset)
RECURSIVE SortStrings(_)
SortStrings(list) ==
    IF list = <<>> THEN <<>>
    ELSE InsertSorted(SortStrings(Tail(list)), list[1])

\* the elements of a list
Range(list) == {list[i] : i \in 1..Len(list)}

\* utf8.DecodeRuneInString(s[i-1:]): the rune that starts at byte i and its
\* width; a byte that starts no well-formed encoding is RuneError (U+FFFD),
\* width 1
DecodeRune(s, i) ==
    LET b0 == s[i]
        cont(k) == i + k <= Len(s) /\ s[i + k] >= 128 /\ s[i + k] <= 191
        lo(k) == s[i + k] - 128
    IN  IF b0 < 128 THEN [r |-> b0, w |-> 1]
        ELSE IF b0 >= 194 /\ b0 <= 223 /\ cont(1)
        THEN [r |-> (b0 - 192) * 64 + lo(1), w |-> 2]
        ELSE IF b0 >= 224 /\ b0 <= 239 /\ cont(1) /\ cont(2)
                /\ (b0 = 224 => s[i + 1] >= 160) /\ (b0 = 237 => s[i + 1] <= 159)
        THEN [r |-> (b0 - 224) * 4096 + lo(1) * 64 + lo(2), w |-> 3]
        ELSE IF b0 >= 240 /\ b0 <= 244 /\ cont(1) /\ cont(2) /\ cont(3)
                /\ (b0 = 240 => s[i + 1] >= 144) /\ (b0 = 244 => s[i + 1] <= 143)
        THEN [r |-> (b0 - 240) * 262144 + lo(1) * 4096 + lo(2) * 64 + lo(3), w |-> 4]
        ELSE [r |-> 65533, w |-> 1]

\* utf8.AppendRune / strings.Builder.WriteRune: the UTF-8 encoding of a rune
EncodeRune(r) ==
    IF r < 128 THEN <<r>>
    ELSE IF r < 2048 THEN <<192 + (r \div 64), 128 + (r % 64)>>
    ELSE IF r < 65536
    THEN <<224 + (r \div 4096), 128 + ((r \div 64) % 64), 128 + (r % 64)>>
    ELSE <<240 + (r \div 262144), 128 + ((r \div 4096) % 64),
           128 + ((r \div 64) % 64), 128 + (r % 64)>>

\* []rune(s): the runes of a string, RuneError for each ill-formed byte
RECURSIVE Runes(_, _)
Runes(s, i) ==
    IF i > Len(s) THEN <<>>
    ELSE LET d == DecodeRune(s, i) IN <<d.r>> \o Runes(s, i + d.w)

\* string(runes)
RECURSIVE EncodeRunes(_)
EncodeRunes(runes) ==
    IF runes = <<>> THEN <<>> ELSE EncodeRune(runes[1]) \o EncodeRunes(Tail(runes))

\* utf8.ValidString
ValidString(s) == \A r \in Range(Runes(s, 1)) : r # 65533

\* unicode.ToUpper and unicode.ToLower on the runes of Basic Latin and
\* Latin-1 Supplement (U+0000..U+00FF) and their images
UpperRune(r) ==
    IF (r >= 97 /\ r <= 122) \/ (r >= 224 /\ r <= 246) \/ (r >= 248 /\ r <= 254)
    THEN r - 32
    ELSE IF r = 255 THEN 376 ELSE IF r = 181 THEN 924 ELSE r

LowerRune(r) ==
    IF (r >= 65 /\ r <= 90) \/ (r >= 192 /\ r <= 214) \/ (r >= 216 /\ r <= 222)
    THEN r + 32
    ELSE IF r = 376 THEN 255 ELSE IF r = 924 THEN 956 ELSE r

\* strings.Map(mapping, s) for the two case mappings: every rune of s is
\* replaced by the encoding of its image, an ill-formed byte by the encoding
\* of RuneError. A run of bytes below utf8.RuneSelf is mapped byte by byte
\* in one pass
RECURSIVE MapCase(_, _, _)
MapCase(s, i, upper) ==
    IF i > Len(s) THEN <<>>
    ELSE LET image(r) == IF upper THEN UpperRune(r) ELSE LowerRune(r)
             high == {k \in i..Len(s) : s[k] >= 128}
             stop == IF high = {} THEN Len(s) + 1
                     ELSE CHOOSE k \in high : \A j \in high : k <= j
         IN  IF stop > i
             THEN [k \in 1..(stop - i) |-> image(s[i + k - 1])] \o MapCase(s, stop, upper)
             ELSE LET d == DecodeRune(s, i)
                  IN  EncodeRune(image(d.r)) \o MapCase(s, i + d.w, upper)

\* strings.ToLower
ToLower(s) == MapCase(s, 1, FALSE)

\* a lower-case hexadecimal digit
HexDigit(d) == IF d < 10 THEN 48 + d ELSE 87 + d

\* strconv.IsPrint on the runes up to U+00FF; the runes above are taken to be
\* printable
IsPrint(r) ==
    IF r <= 255 THEN (32 <= r /\ r < 127) \/ (161 <= r /\ r # 173) ELSE TRUE

\* strconv.Quote, the escape of one rune of width w whose first byte is b
appendEscapedRune(r, w, b) ==
    IF r = 65533 /\ w = 1 THEN <<92, 120, HexDigit(b \div 16), HexDigit(b % 16)>>
    ELSE IF r = 34 \/ r = 92 THEN <<92, r>>
    ELSE IF IsPrint(r) THEN EncodeRune(r)
    ELSE IF r = 7 THEN <<92, 97>>
    ELSE IF r = 8 THEN <<92, 98>>
    ELSE IF r = 12 THEN <<92, 102>>
    ELSE IF r = 10 THEN <<92, 110>>
    ELSE IF r = 13 THEN <<92, 114>>
    ELSE IF r = 9 THEN <<92, 116>>
    ELSE IF r = 11 THEN <<92, 118>>
    ELSE IF r < 32 \/ r = 127 THEN <<92, 120, HexDigit(r \div 16), HexDigit(r % 16)>>
    ELSE <<92, 117, HexDigit(r \div 4096), HexDigit((r \div 256) % 16),
           HexDigit((r \div 16) % 16), HexDigit(r % 16)>>

RECURSIVE QuoteFrom(_, _)
QuoteFrom(s, i) ==
    IF i > Len(s) THEN <<>>
    ELSE LET d == DecodeRune(s, i)
         IN  appendEscapedRune(d.r, d.w, s[i]) \o QuoteFrom(s, i + d.w)

\* strconv.Quote, the %q of fmt.Sprintf: the string as a double-quoted Go
\* string literal
Quote(s) == <<34>> \o QuoteFrom(s, 1) \o <<34>>

(***************************************************************************)
(* Path filter                                                             *)
(***************************************************************************)

\* getEsc of path.Match: one item of a character class, the rune it stands
\* for and the rest of the chunk; err is ErrBadPattern
getEsc(chunk) ==
    LET bad == [r |-> 0, rest |-> <<>>, err |-> TRUE]
        c == IF chunk # <<>> /\ chunk[1] = 92 THEN Tail(chunk) ELSE chunk
        rune(d) ==
            [r |-> d.r, rest |-> Slice(c, d.w, Len(c)),
             err |-> (d.r = 65533 /\ d.w = 1) \/ d.w = Len(c)]
    IN  IF chunk = <<>> \/ chunk[1] = 45 \/ chunk[1] = 93 \/ c = <<>> THEN bad
        ELSE rune(DecodeRune(c, 1))

RECURSIVE matchClass(_, _, _, _)

\* matchChunk of path.Match, one turn of the loop over the ranges of a
\* class once the ends lo and hi of the range are parsed
matchClassRange(lo, hi, r, match, nrange) ==
    IF hi.err THEN [rest |-> <<>>, match |-> FALSE, err |-> TRUE]
    ELSE matchClass(hi.rest, r, match \/ (lo.r <= r /\ r <= hi.r), nrange + 1)

\* matchChunk of path.Match, one turn of the loop over the ranges of a
\* class once lo is parsed: hi is lo unless a '-' follows
matchClassItem(lo, r, match, nrange) ==
    IF lo.err THEN [rest |-> <<>>, match |-> FALSE, err |-> TRUE]
    ELSE matchClassRange(lo, IF lo.rest[1] = 45 THEN getEsc(Tail(lo.rest)) ELSE lo,
                         r, match, nrange)

\* matchChunk of path.Match, the loop that parses the ranges of a character
\* class: whether the rune r is in one of them, and the chunk after the ']'
matchClass(chunk, r, match, nrange) ==
    IF chunk # <<>> /\ chunk[1] = 93 /\ nrange > 0
    THEN [rest |-> Tail(chunk), match |-> match, err |-> FALSE]
    ELSE matchClassItem(getEsc(chunk), r, match, nrange)

RECURSIVE matchChunk(_, _, _)

\* matchChunk of path.Match, the cases '[' and '?': d is the rune decoded
\* from s, of width 0 once the match has failed
matchChunkRune(chunk, s, d, failed) ==
    LET negated == Len(chunk) > 1 /\ chunk[2] = 94
        after(class) ==
            IF class.err THEN [rest |-> <<>>, ok |-> FALSE, err |-> TRUE]
            ELSE matchChunk(class.rest, Slice(s, d.w, Len(s)),
                            failed \/ class.match = negated)
    IN  IF chunk[1] = 91
        THEN after(matchClass(Slice(chunk, IF negated THEN 2 ELSE 1, Len(chunk)),
                              d.r, FALSE, 0))
        ELSE matchChunk(Tail(chunk), Slice(s, d.w, Len(s)), failed \/ s[1] = 47)

\* matchChunk of path.Match: the chunk (a pattern without '*' outside a
\* class) against the start of s. Once the match has failed the rest of the
\* chunk is still parsed, s is no longer read. '?' and a class take one rune,
\* a literal one byte; '?' does not match '/'
matchChunk(chunk, s, wasFailed) ==
    LET failed == wasFailed \/ s = <<>>
        c == IF chunk # <<>> /\ chunk[1] = 92 THEN Tail(chunk) ELSE chunk
    IN  IF chunk = <<>>
        THEN IF wasFailed THEN [rest |-> <<>>, ok |-> FALSE, err |-> FALSE]
             ELSE [rest |-> s, ok |-> TRUE, err |-> FALSE]
        ELSE IF chunk[1] = 91 \/ chunk[1] = 63
        THEN matchChunkRune(chunk, s, IF failed THEN [r |-> 0, w |-> 0]
                                      ELSE DecodeRune(s, 1), failed)
        ELSE IF c = <<>> THEN [rest |-> <<>>, ok |-> FALSE, err |-> TRUE]
        ELSE matchChunk(Tail(c), IF failed THEN s ELSE Tail(s), failed \/ c[1] # s[1])

\* scanChunk of path.Match, its loop: the length of the chunk that starts the
\* pattern, which ends before the first '*' outside a class
RECURSIVE scanChunkEnd(_, _, _)
scanChunkEnd(pattern, i, inrange) ==
    IF i >= Len(pattern) THEN i
    ELSE IF pattern[i + 1] = 92
    THEN scanChunkEnd(pattern, IF i + 1 < Len(pattern) THEN i + 2 ELSE i + 1, inrange)
    ELSE IF pattern[i + 1] = 91 THEN scanChunkEnd(pattern, i + 1, TRUE)
    ELSE IF pattern[i + 1] = 93 THEN scanChunkEnd(pattern, i + 1, FALSE)
    ELSE IF pattern[i + 1] = 42 /\ ~inrange THEN i
    ELSE scanChunkEnd(pattern, i + 1, inrange)

\* the pattern without its leading '*'s
RECURSIVE TrimStars(_)
TrimStars(pattern) ==
    IF pattern # <<>> /\ pattern[1] = 42 THEN TrimStars(Tail(pattern)) ELSE pattern

\* scanChunk of path.Match: whether the pattern starts with '*', its first
\* chunk and what follows it
scanChunk(pattern) ==
    LET cut(p, i) ==
            [star |-> pattern # <<>> /\ pattern[1] = 42,
             chunk |-> Slice(p, 0, i), rest |-> Slice(p, i, Len(p))]
        scan(p) == cut(p, scanChunkEnd(p, 0, FALSE))
    IN  scan(TrimStars(pattern))

\* path.Match, the check of the remainder of a pattern that did not match:
\* ErrBadPattern if one of its chunks is malformed
RECURSIVE Malformed(_)
Malformed(pattern) ==
    /\ pattern # <<>>
    /\ \/ matchChunk(scanChunk(pattern).chunk, <<>>, FALSE).err
       \/ Malformed(scanChunk(pattern).rest)

\* path.Match, the match of one chunk: at the start of the name first and,
\* when a '*' precedes the chunk, after each further byte of the name up to
\* its first '/'. i is the number of bytes skipped, last tells that the
\* pattern ends with the chunk: a match that leaves some of the name is then
\* passed over. [found, rest, err]: rest is the name after the match, err
\* tells that the chunk is malformed
RECURSIVE matchStar(_, _, _, _, _)
matchStar(chunk, last, star, name, i) ==
    LET tried(t) ==
            IF t.ok /\ ~(last /\ t.rest # <<>>)
            THEN [found |-> TRUE, rest |-> t.rest, err |-> FALSE]
            ELSE IF ~t.ok /\ t.err THEN [found |-> FALSE, rest |-> <<>>, err |-> TRUE]
            ELSE IF star /\ i < Len(name) /\ name[i + 1] # 47
            THEN matchStar(chunk, last, star, name, i + 1)
            ELSE [found |-> FALSE, rest |-> <<>>, err |-> FALSE]
    IN  tried(matchChunk(chunk, Slice(name, i, Len(name)), FALSE))

RECURSIVE Match(_, _)

\* path.Match, one turn of its loop over the chunks sc of the pattern
matchScanned(sc, name) ==
    LET tried(t, malformed) ==
            IF t.found THEN Match(sc.rest, t.rest)
            ELSE [matched |-> FALSE, err |-> t.err \/ malformed]
    IN  IF sc.star /\ sc.chunk = <<>>
        THEN [matched |-> 47 \notin Range(name), err |-> FALSE]
        ELSE tried(matchStar(sc.chunk, sc.rest = <<>>, sc.star, name, 0),
                   Malformed(sc.rest))

\* path.Match(pattern, name): [matched, err], err for ErrBadPattern. '*'
\* matches any sequence of non-'/' bytes
Match(pattern, name) ==
    IF pattern = <<>> THEN [matched |-> name = <<>>, err |-> FALSE]
    ELSE matchScanned(scanChunk(pattern), name)

\* ok, err := path.Match(p, normalized); err == nil && ok
PathMatch(p, n) == Match(p, n) = [matched |-> TRUE, err |-> FALSE]

\* filepath.ToSlash: every filepath.Separator turned into '/'
ToSlash(s) == [i \in 1..Len(s) |-> IF <<s[i]>> = Slash THEN 47 ELSE s[i]]

\* strings.TrimSpace on ASCII white space: tab, line feed, vertical tab, form
\* feed, carriage return and space
RECURSIVE TrimSpace(_)
TrimSpace(s) ==
    LET space == {9, 10, 11, 12, 13, 32}
    IN  IF s = <<>> THEN s
        ELSE IF s[1] \in space THEN TrimSpace(Tail(s))
        ELSE IF s[Len(s)] \in space THEN TrimSpace(SubSeq(s, 1, Len(s) - 1))
        ELSE s

\* a matchesAny whose directory patterns match anywhere inside the path
matchesAny_substring(candidatePath, patterns) ==
    LET normalized == TrimPrefix(TrimPrefix(ToSlash(candidatePath), <<46, 47>>), Slash)
    IN  \E i \in 1..Len(patterns) :
            LET trimmed == ToSlash(TrimSpace(patterns[i]))
                p == TrimPrefix(TrimPrefix(trimmed, <<46, 47>>), Slash)
                base == TrimSuffix(p, Slash)
            IN  IF trimmed = <<>> THEN FALSE
                ELSE IF HasSuffix(p, Slash)
                THEN normalized = base \/ Contains(normalized, base \o Slash)
                ELSE PathMatch(p, normalized)

\* matchesAny: whether one of the patterns matches the path. A pattern that
\* is empty once trimmed is passed over; one that ends in '/' matches the
\* directory it names and everything below it; any other is handed to
\* path.Match
matchesAny(candidatePath, patterns) ==
    LET normalized == TrimPrefix(TrimPrefix(ToSlash(candidatePath), <<46, 47>>), Slash)
    IN  \E i \in 1..Len(patterns) :
            LET trimmed == ToSlash(TrimSpace(patterns[i]))
                p == TrimPrefix(TrimPrefix(trimmed, <<46, 47>>), Slash)
                base == TrimSuffix(p, Slash)
            IN  IF trimmed = <<>> THEN FALSE
                ELSE IF HasSuffix(p, Slash)
                THEN normalized = base \/ HasPrefix(normalized, base \o Slash)
                ELSE PathMatch(p, normalized)

\* defaultExcludedPaths (internal/cli/assets.go):
\* "Pods/", "Carthage/", "SourcePackages/", ".build/", "vendor/"
defaultExcludedPaths ==
    << <<80,111,100,115,47>>,
       <<67,97,114,116,104,97,103,101,47>>,
       <<83,111,117,114,99,101,80,97,99,107,97,103,101,115,47>>,
       <<46,98,117,105,108,100,47>>,
       <<118,101,110,100,111,114,47>> >>

(***************************************************************************)
(* The directory tree and filepath.WalkDir                                 *)
(***************************************************************************)

\* ".xcassets"
XcassetsSuffix == <<46,120,99,97,115,115,101,116,115>>

\* ".imageset", ".colorset", ".dataset"
ImagesetExt == <<46,105,109,97,103,101,115,101,116>>
ColorsetExt == <<46,99,111,108,111,114,115,101,116>>
DatasetExt == <<46,100,97,116,97,115,101,116>>

\* sourceExtensions: ".swift", ".m", ".h", ".xib", ".storyboard"
SwiftExt == <<46,115,119,105,102,116>>
XibExt == <<46,120,105,98>>
StoryboardExt == <<46,115,116,111,114,121,98,111,97,114,100>>
sourceExtensions == {SwiftExt, <<46,109>>, <<46,104>>, XibExt, StoryboardExt}

\* the proper ancestors of path p that lie at or below root
Ancestors(root, p) ==
    {Slice(p, 0, i) : i \in {j \in Len(root)..(Len(p) - 1) : p[j + 1] = 47}}

\* A tree is [dirs |-> set of leaf directory paths, files |-> set of file paths]
\* below root; every ancestor of a leaf is a directory of the tree.
TreeDirs(root, tree) ==
    {root} \cup tree.dirs
           \cup UNION {Ancestors(root, p) : p \in tree.dirs \cup tree.files}

TreeEntries(root, tree) == TreeDirs(root, tree) \cup tree.files

\* The order in which filepath.WalkDir visits two entries: a directory before
\* its contents, the entries of one directory by file name. Comparing the
\* lists of path elements this way is comparing the paths byte by byte with
\* the separator below every other byte.
WalkKey(p) == [i \in 1..Len(p) |-> IF p[i] = 47 THEN 0 ELSE p[i]]

WalkLess(p, q) == StrLess(WalkKey(p), WalkKey(q))

RECURSIVE WalkInsert(_, _)
WalkInsert(sorted, x) ==
    IF sorted = <<>> THEN <<x>>
    ELSE IF WalkLess(x, sorted[1]) THEN <<x>> \o sorted
    ELSE <<sorted[1]>> \o WalkInsert(Tail(sorted), x)

\* the entries of a set in walk order
RECURSIVE WalkSort(_)
WalkSort(S) ==
    IF S = {} THEN <<>>
    ELSE LET x == CHOOSE p \in S : TRUE
         IN  WalkInsert(WalkSort(S \ {x}), x)

\* filepath.Rel(root, path) for a path at or below root
Rel(root, path) == IF path = root THEN Dot ELSE Slice(path, Len(root) + 1, Len(path))

\* The entries for which WalkDir calls the walk function, in order, when the
\* function answers filepath.SkipDir exactly for the directories in skipped:
\* nothing below a skipped directory is visited.
WalkVisits(root, tree, skipped) ==
    WalkSort({p \in TreeEntries(root, tree) :
                  Ancestors(root, p) \cap skipped = {}})

(***************************************************************************)
(* Asset inventory                                                         *)
(***************************************************************************)

\* isAssetSetDir
isAssetSetDir(name) == Ext(name) \in {ImagesetExt, ColorsetExt, DatasetExt}

\* a catalogPathForAsset that falls back to the parent directory
catalogPathForAsset_orParent(assetPath) ==
    LET idx == Index(assetPath, XcassetsSuffix \o Slash)
    IN  IF idx < 0
        THEN Slice(assetPath, 0, LastPos(assetPath, 47, Len(assetPath)) - 1)
        ELSE Slice(assetPath, 0, idx + Len(XcassetsSuffix))

\* catalogPathForAsset: the path up to and including the FIRST ".xcassets/"
catalogPathForAsset(assetPath) ==
    LET idx == Index(assetPath, XcassetsSuffix \o Slash)
    IN  IF idx < 0
        THEN IF HasSuffix(assetPath, XcassetsSuffix) THEN assetPath ELSE Empty
        ELSE Slice(assetPath, 0, idx + Len(XcassetsSuffix))

\* an inventory that applies the include patterns to no directory
collectAssets_includeIgnored(root, tree, include, exclude) ==
    LET dirs == TreeDirs(root, tree)
        excluded(p) == matchesAny(Rel(root, p), exclude)
        visited == Range(WalkVisits(root, tree, {d \in dirs : excluded(d)}))
        isCatalog(p) == p \in dirs /\ HasSuffix(Base(p), XcassetsSuffix)
        assetPaths ==
            {p \in visited :
                /\ ~excluded(p) /\ p \in dirs /\ ~isCatalog(p)
                /\ isAssetSetDir(Base(p))
                /\ TrimSuffix(Base(p), Ext(Base(p))) # Empty
                /\ catalogPathForAsset(p) # Empty}
        sorted == SortStrings(WalkSort(assetPaths))
    IN  [assetCatalogs |-> Cardinality({p \in visited : ~excluded(p) /\ isCatalog(p)}),
         discoveredAssets |->
            [i \in 1..Len(sorted) |->
                [Name |-> TrimSuffix(Base(sorted[i]), Ext(Base(sorted[i]))),
                 CatalogPath |-> catalogPathForAsset(sorted[i]),
                 AssetPath |-> sorted[i],
                 AssetType |-> TrimPrefix(Ext(Base(sorted[i])), Dot)]]]

\* collectAssets: [assetCatalogs |-> number of catalogs counted,
\*                 discoveredAssets |-> list of discoveredAsset sorted by AssetPath]
\* The walk function answers SkipDir only for an excluded directory; for a
\* catalog and for an asset-set directory it answers nil, so the walk descends.
collectAssets(root, tree, include, exclude) ==
    LET dirs == TreeDirs(root, tree)
        excluded(p) == matchesAny(Rel(root, p), exclude)
        visited == Range(WalkVisits(root, tree, {d \in dirs : excluded(d)}))
        considered(p) ==
            /\ ~excluded(p)
            /\ (Len(include) = 0 \/ matchesAny(Rel(root, p), include))
        isCatalog(p) == p \in dirs /\ HasSuffix(Base(p), XcassetsSuffix)
        assetPaths ==
            {p \in visited :
                /\ considered(p) /\ p \in dirs /\ ~isCatalog(p)
                /\ isAssetSetDir(Base(p))
                /\ TrimSuffix(Base(p), Ext(Base(p))) # Empty
                /\ catalogPathForAsset(p) # Empty}
        sorted == SortStrings(WalkSort(assetPaths))
    IN  [assetCatalogs |-> Cardinality({p \in visited : considered(p) /\ isCatalog(p)}),
         discoveredAssets |->
            [i \in 1..Len(sorted) |->
                [Name |-> TrimSuffix(Base(sorted[i]), Ext(Base(sorted[i]))),
                 CatalogPath |-> catalogPathForAsset(sorted[i]),
                 AssetPath |-> sorted[i],
                 AssetType |-> TrimPrefix(Ext(Base(sorted[i])), Dot)]]]

\* a namer that never appends the asset type
summaryNameForAsset_bareName(discoveredAssets, asset) == asset.Name

\* buildAssetSummaryNamer: the summary identifier of an asset
summaryNameForAsset(discoveredAssets, asset) ==
    LET types == {discoveredAssets[i].AssetType :
                     i \in {j \in 1..Len(discoveredAssets) :
                               discoveredAssets[j].Name = asset.Name}}
    IN  IF Cardinality(types) > 1
        THEN asset.Name \o Dot \o asset.AssetType
        ELSE asset.Name

(***************************************************************************)
(* Resolution of a reference to asset paths                                *)
(***************************************************************************)

\* commonPathPrefixSegments
RECURSIVE countPrefix(_, _, _, _)
countPrefix(aParts, bParts, max, i) ==
    IF i > max \/ aParts[i] # bParts[i] THEN i - 1
    ELSE countPrefix(aParts, bParts, max, i + 1)

commonPathPrefixSegments(a, b) ==
    LET aParts == SplitSlash(a)
        bParts == SplitSlash(b)
        max == IF Len(bParts) < Len(aParts) THEN Len(bParts) ELSE Len(aParts)
    IN  countPrefix(aParts, bParts, max, 1)

\* selectClosestAssets: the loop over the candidates, keeping the best score
RECURSIVE closestLoop(_, _, _, _, _)
closestLoop(sourcePath, candidates, i, best, bestScore) ==
    IF i > Len(candidates) THEN best
    ELSE LET score == commonPathPrefixSegments(sourcePath, candidates[i].CatalogPath)
         IN  IF score > bestScore
             THEN closestLoop(sourcePath, candidates, i + 1, <<candidates[i]>>, score)
             ELSE IF score = bestScore
                  THEN closestLoop(sourcePath, candidates, i + 1,
                                   Append(best, candidates[i]), bestScore)
                  ELSE closestLoop(sourcePath, candidates, i + 1, best, bestScore)

\* a selection without the tie-break: every candidate is kept
selectClosestAssets_everyCandidate(sourcePath, candidates) == candidates

selectClosestAssets(sourcePath, candidates) ==
    IF Len(candidates) <= 1 THEN candidates
    ELSE closestLoop(sourcePath, candidates, 1, <<>>, -1)

\* the lists assetPathsByName[name] and assetPathsByTypeAndName[type \x00 name]
\* of collectUsedAssets
assetPathsByName(discoveredAssets, name) ==
    SelectSeq(discoveredAssets, LAMBDA a : a.Name = name)

assetPathsByTypeAndName(discoveredAssets, name, assetType) ==
    SelectSeq(discoveredAssets, LAMBDA a : a.Name = name /\ a.AssetType = assetType)

\* a markUsed that looks the name up without its type
markUsed_byNameOnly(discoveredAssets, sourcePath, name, assetType) ==
    LET candidates == assetPathsByName(discoveredAssets, name)
    IN  IF Len(candidates) = 0 THEN <<>>
        ELSE selectClosestAssets(sourcePath, candidates)

\* markUsed: the assets one call inserts into usedSet (the empty list when the
\* call returns before taking the lock)
markUsed(discoveredAssets, sourcePath, name, assetType) ==
    LET candidates ==
            IF assetType # Empty
            THEN assetPathsByTypeAndName(discoveredAssets, name, assetType)
            ELSE assetPathsByName(discoveredAssets, name)
    IN  IF Len(candidates) = 0 THEN <<>>
        ELSE selectClosestAssets(sourcePath, candidates)

(***************************************************************************)
(* Candidate index                                                         *)
(***************************************************************************)

\* unicode.IsLetter and unicode.IsDigit on the runes of Basic Latin and
\* Latin-1 Supplement and the images of their case mappings
IsLetter(r) ==
    \/ (r >= 65 /\ r <= 90) \/ (r >= 97 /\ r <= 122)
    \/ r \in {170, 181, 186, 376, 924, 956}
    \/ (r >= 192 /\ r <= 214) \/ (r >= 216 /\ r <= 246) \/ (r >= 248 /\ r <= 255)
IsDigit(r) == r >= 48 /\ r <= 57

\* strings.ToUpper
ToUpper(s) == MapCase(s, 1, TRUE)

\* strings.FieldsFunc(assetName, not letter and not digit): the maximal runs
\* of runes that are letters or digits
RECURSIVE FieldsLoop(_, _, _)
FieldsLoop(s, i, cur) ==
    IF i > Len(s) THEN (IF cur = <<>> THEN <<>> ELSE <<cur>>)
    ELSE LET d == DecodeRune(s, i)
         IN  IF IsLetter(d.r) \/ IsDigit(d.r)
             THEN FieldsLoop(s, i + d.w, cur \o SubSeq(s, i, i + d.w - 1))
             ELSE (IF cur = <<>> THEN <<>> ELSE <<cur>>) \o FieldsLoop(s, i + d.w, <<>>)

Fields(s) == FieldsLoop(s, 1, <<>>)

\* the camel-case form built by swiftResourceCandidatesForAsset:
\* ToLower(parts[0]) then, for each later part p, ToUpper(p[:1]) + p[1:],
\* where p[:1] is the first byte of p
RECURSIVE CamelTail(_)
CamelTail(parts) ==
    IF parts = <<>> THEN <<>>
    ELSE ToUpper(Slice(parts[1], 0, 1)) \o Slice(parts[1], 1, Len(parts[1]))
         \o CamelTail(Tail(parts))

\* swiftIdentifierVariants: for a name that starts with an ASCII digit,
\* "_" + string(runes) where runes is []rune(name) with the first rune after
\* the leading digits upper-cased when it is a letter
swiftIdentifierVariants(name) ==
    LET nonDigits == {i \in 1..Len(name) : ~(name[i] >= 48 /\ name[i] <= 57)}
        leadingDigits == IF nonDigits = {} THEN Len(name)
                         ELSE (CHOOSE i \in nonDigits : \A j \in nonDigits : i <= j) - 1
        runes == Runes(name, 1)
        nonDigitRunes == {i \in 1..Len(runes) : ~IsDigit(runes[i])}
        runeDigitCount == IF nonDigitRunes = {} THEN Len(runes)
                          ELSE (CHOOSE i \in nonDigitRunes : \A j \in nonDigitRunes : i <= j) - 1
    IN  IF name = <<>> \/ leadingDigits = 0 THEN <<>>
        ELSE << <<95>> \o EncodeRunes([i \in 1..Len(runes) |->
                              IF i = runeDigitCount + 1 /\ IsLetter(runes[i])
                              THEN UpperRune(runes[i]) ELSE runes[i]]) >>

\* the list without its repeated and empty entries, first occurrences kept
RECURSIVE Dedup(_, _)
Dedup(list, seen) ==
    IF list = <<>> THEN <<>>
    ELSE IF list[1] \in seen \/ list[1] = <<>> THEN Dedup(Tail(list), seen)
         ELSE <<list[1]>> \o Dedup(Tail(list), seen \cup {list[1]})

\* the list of records without its repeated entries, first occurrences kept
RECURSIVE DedupRefs(_, _)
DedupRefs(list, seen) ==
    IF list = <<>> THEN <<>>
    ELSE IF list[1] \in seen THEN DedupRefs(Tail(list), seen)
         ELSE <<list[1]>> \o DedupRefs(Tail(list), seen \cup {list[1]})

\* the strings of a set in ascending order (slices.Sort of the keys of a map)
RECURSIVE SortedSet(_)
SortedSet(S) ==
    IF S = {} THEN <<>>
    ELSE LET x == CHOOSE a \in S : TRUE
         IN  InsertSorted(SortedSet(S \ {x}), x)

RECURSIVE Flatten(_)
Flatten(lists) == IF lists = <<>> THEN <<>> ELSE lists[1] \o Flatten(Tail(lists))

\* swiftResourceCandidatesForAsset
swiftResourceCandidatesForAsset(assetName, assetType) ==
    LET parts == Fields(assetName)
        camel == ToLower(parts[1]) \o CamelTail(Tail(parts))
        trim(t, suffix) ==
            IF assetType = t /\ HasSuffix(assetName, suffix) /\ Len(assetName) > Len(suffix)
            THEN <<TrimSuffix(assetName, suffix)>> ELSE <<>>
        candidates ==
            <<assetName>>
            \o (IF camel # <<>> /\ camel # assetName THEN <<camel>> ELSE <<>>)
            \o trim(TrimPrefix(ImagesetExt, Dot), <<73,109,97,103,101>>)
            \o trim(TrimPrefix(ColorsetExt, Dot), <<67,111,108,111,114>>)
            \o trim(TrimPrefix(DatasetExt, Dot), <<68,97,116,97>>)
    IN  IF Len(parts) = 0 THEN <<assetName>>
        ELSE Dedup(Flatten([i \in 1..Len(candidates) |->
                               <<candidates[i]>> \o swiftIdentifierVariants(candidates[i])]),
                   {})

\* an index keyed by the asset names only
swiftResourceCandidates_byName(discoveredAssets, identifier) ==
    SelectSeq(discoveredAssets, LAMBDA a : a.Name = identifier)

\* buildSwiftResourceCandidateIndex, as the lookup swiftResourceCandidates[identifier]:
\* the assets that have the identifier among their candidates, in inventory order
swiftResourceCandidates(discoveredAssets, identifier) ==
    SelectSeq(discoveredAssets,
              LAMBDA a : identifier \in Range(swiftResourceCandidatesForAsset(a.Name, a.AssetType)))

(***************************************************************************)
(* Reference extraction                                                    *)
(*                                                                         *)
(* The content of a source file is the list of the constructs in it that   *)
(* one of the scanner's regular expressions is written for, in file order. *)
(* A construct is [form, label, arg]; form names the shape of the text,    *)
(* arg the captured name or identifier, label the argument label (Empty    *)
(* where the shape has none).                                              *)
(***************************************************************************)

Token(form, label, arg) == [form |-> form, label |-> label, arg |-> arg]

\* the asset types, as the scanner writes them
Imageset == TrimPrefix(ImagesetExt, Dot)
Colorset == TrimPrefix(ColorsetExt, Dot)
Dataset == TrimPrefix(DatasetExt, Dot)

\* the captures of one regular expression: the args of the constructs of the
\* given forms, in file order
Captures(content, forms) ==
    LET hits == SelectSeq(content, LAMBDA t : t.form \in forms)
    IN  [i \in 1..Len(hits) |-> hits[i].arg]

\* ibImageStateRefRe: image="X", selectedImage="X", highlightedImage="X"
ibImageStateForms == {"image=", "selectedImage=", "highlightedImage="}

\* ibNamedAssetTagRefRe: <image ... name="X">, <color ... name="X">
ibNamedAssetTagForms == {"<image name=", "<color name="}

\* extractIBAssetReferences: names only, without an asset type
extractIBAssetReferences(content) ==
    Dedup(Captures(content, ibImageStateForms) \o Captures(content, ibNamedAssetTagForms), {})

\* resourceTypeToAssetType
resourceTypeToAssetType(resourceType) ==
    IF resourceType = "ImageResource" THEN Imageset
    ELSE IF resourceType = "ColorResource" THEN Colorset
    ELSE Empty

\* the parameter declarations swiftResourceParameterRe finds in a file:
\* "label: ImageResource" and "label: ColorResource"
parameterForms == {"param: ImageResource", "param: ColorResource"}

\* the labels one .swift file adds in collectSwiftResourceArgumentLabelAssetTypes:
\* a set of <<label, assetType>>
labelsOfContent(content) ==
    {<<content[i].label,
       resourceTypeToAssetType(IF content[i].form = "param: ImageResource"
                               THEN "ImageResource" ELSE "ColorResource")>> :
        i \in {j \in 1..Len(content) :
                  /\ content[j].form \in parameterForms
                  /\ content[j].label # Empty
                  /\ content[j].label # <<95>>}}

\* the asset types of a label in the order one range over the map
\* labelAssetTypes[label] yields them: colorset first when colorFirst
typesInRangeOrder(label, labelAssetTypes, colorFirst) ==
    LET image == IF <<label, Imageset>> \in labelAssetTypes THEN <<Imageset>> ELSE <<>>
        color == IF <<label, Colorset>> \in labelAssetTypes THEN <<Colorset>> ELSE <<>>
    IN  IF colorFirst THEN color \o image ELSE image \o color

\* the call sites of a file at which the range over the asset types of the
\* label has more than one order
RangeOrderSites(content, labelAssetTypes) ==
    {i \in 1..Len(content) :
        /\ content[i].form = "label: .ident"
        /\ <<content[i].label, Imageset>> \in labelAssetTypes
        /\ <<content[i].label, Colorset>> \in labelAssetTypes}

\* extractSwiftLabeledResourceArgumentReferences: "label: .ident" call sites of
\* the labels in the map, the labels sorted, for each call site one reference
\* per asset type of the label, in the order the range over the map yields
\* them (colorFirst: the call sites, by position, at which it yields colorset
\* first), a (name, type) pair once
extractSwiftLabeledResourceArgumentReferences(content, labelAssetTypes, colorFirst) ==
    LET labels == SortedSet({l[1] : l \in labelAssetTypes})
        site(i, label) ==
            IF content[i].form = "label: .ident" /\ content[i].label = label
            THEN LET types == typesInRangeOrder(label, labelAssetTypes, i \in colorFirst)
                 IN  [k \in 1..Len(types) |->
                         [Name |-> content[i].arg, AssetType |-> types[k]]]
            ELSE <<>>
        ofLabel(label) == Flatten([i \in 1..Len(content) |-> site(i, label)])
    IN  DedupRefs(Flatten([i \in 1..Len(labels) |-> ofLabel(labels[i])]), {})

\* the typed references of one regular expression
TypedCaptures(content, forms, assetType) ==
    LET names == Captures(content, forms)
    IN  [i \in 1..Len(names) |-> [Name |-> names[i], AssetType |-> assetType]]

\* extractExplicitSourceAssetReferences: the typed references of a source
\* file, in the order the code appends them, repeated keys dropped
extractExplicitSourceAssetReferences(content, labelAssetTypes, colorFirst) ==
    DedupRefs(   TypedCaptures(content, {"UIImage(named:)", "NSImage(named:)", "Image(named:)"}, Imageset)
          \o TypedCaptures(content, {"UIColor(named:)", "NSColor(named:)", "Color(named:)"}, Colorset)
          \o TypedCaptures(content, {"NSDataAsset(name:)", "DataAsset(name:)"}, Dataset)
          \o TypedCaptures(content, {"Image(\"\")"}, Imageset)
          \o TypedCaptures(content, {"Color(\"\")"}, Colorset)
          \o extractSwiftLabeledResourceArgumentReferences(content, labelAssetTypes, colorFirst)
          \o TypedCaptures(content, {"[UIImage imageNamed:]"}, Imageset)
          \o TypedCaptures(content, {"[UIColor colorNamed:]"}, Colorset)
          \o TypedCaptures(content, {"[NSDataAsset initWithName:]"}, Dataset)
          \o TypedCaptures(content, {"[UIImage imageNamed:var]"}, Imageset),
          {})

\* The constructs of a .swift file that the typed-return matcher looks at:
\* "func -> ImageResource" and "func -> ColorResource" are the declaration
\* heads swiftResourceReturnTypeRe matches (a func or var head up to its
\* resource return type, with or without a body after it),
\* "var: ImageResource {" the computed property it matches together with its
\* opening brace, "func -> Other" a head with another return type (no match),
\* "{" and "}" the braces and "return .ident" a match of
\* swiftReturnEnumMemberRe.

\* findMatchingBrace, as its loop: the index of the brace that closes the
\* one at openIdx, counting depth from position i on; 0 when there is none
RECURSIVE findMatchingBrace(_, _, _)
findMatchingBrace(content, i, depth) ==
    IF i > Len(content) THEN 0
    ELSE IF content[i].form \in {"{", "var: ImageResource {"}
         THEN findMatchingBrace(content, i + 1, depth + 1)
    ELSE IF content[i].form = "}"
         THEN (IF depth = 1 THEN i ELSE findMatchingBrace(content, i + 1, depth - 1))
    ELSE findMatchingBrace(content, i + 1, depth)

\* extractSwiftResourceReturnBodies: for every match of
\* swiftResourceReturnTypeRe, what lies between the first "{" at or after the
\* start of the match and the brace that closes it
extractSwiftResourceReturnBodies(content) ==
    LET matches == {i \in 1..Len(content) :
                       content[i].form \in {"func -> ImageResource", "func -> ColorResource",
                                            "var: ImageResource {"}}
        opens(i) == {j \in i..Len(content) : content[j].form \in {"{", "var: ImageResource {"}}
        openIdx(i) == CHOOSE j \in opens(i) : \A k \in opens(i) : j <= k
        closeIdx(i) == findMatchingBrace(content, openIdx(i), 0)
        body(i) == IF opens(i) = {} \/ closeIdx(i) = 0 THEN <<>>
                   ELSE <<SubSeq(content, openIdx(i) + 1, closeIdx(i) - 1)>>
    IN  Flatten([i \in 1..Len(content) |-> IF i \in matches THEN body(i) ELSE <<>>])

\* extractSwiftTypedResourceIdentifiers: the enum members assigned to typed
\* variables, then those returned in the bodies extractSwiftResourceReturnBodies
\* finds, repeats dropped
extractSwiftTypedResourceIdentifiers(content) ==
    LET bodies == extractSwiftResourceReturnBodies(content)
    IN  Dedup(Captures(content, {"typed var = .ident"})
              \o Flatten([b \in 1..Len(bodies) |-> Captures(bodies[b], {"return .ident"})]),
              {})

\* extractSwiftResourceIdentifiers: X(resource: .ident)
extractSwiftResourceIdentifiers(content) ==
    Captures(content, {"UIImage(resource:)", "UIColor(resource:)", "DataAsset(resource:)"})

\* the lists without the empty ones
NonEmpty(lists) == SelectSeq(lists, LAMBDA l : l # <<>>)

\* The insertions one worker makes for one file it has read: a list with one
\* entry per acquisition of usedMu, each the set of asset paths inserted
\* while the lock is held (lines 290-325 of collectUsedAssets); colorFirst as
\* in extractSwiftLabeledResourceArgumentReferences.
fileInsertions(discoveredAssets, labelAssetTypes, path, content, colorFirst) ==
    LET ext == ToLower(Ext(path))
        paths(assets) == {assets[i].AssetPath : i \in 1..Len(assets)}
        ib == extractIBAssetReferences(content)
        explicit == extractExplicitSourceAssetReferences(content, labelAssetTypes, colorFirst)
        first ==
            IF ext \in {StoryboardExt, XibExt}
            THEN [i \in 1..Len(ib) |-> markUsed(discoveredAssets, path, ib[i], Empty)]
            ELSE [i \in 1..Len(explicit) |->
                     markUsed(discoveredAssets, path, explicit[i].Name, explicit[i].AssetType)]
        idents == extractSwiftTypedResourceIdentifiers(content)
                  \o extractSwiftResourceIdentifiers(content)
        second ==
            IF ext = SwiftExt
            THEN [i \in 1..Len(idents) |->
                     selectClosestAssets(path, swiftResourceCandidates(discoveredAssets, idents[i]))]
            ELSE <<>>
        all == NonEmpty(first \o second)
    IN  [i \in 1..Len(all) |-> paths(all[i])]

(***************************************************************************)
(* Reading files and the two walks over the source files                   *)
(***************************************************************************)

NoError == [kind |-> "nil", path |-> Empty]

\* an osReadFile that reads a file of invalid UTF-8 as an empty one
osReadFile_invalidUTF8AsEmpty(w, path) ==
    IF w.status[path] = "oserr"
    THEN [content |-> <<>>, err |-> [kind |-> "open", path |-> path]]
    ELSE IF w.status[path] = "badutf8"
         THEN [content |-> <<>>, err |-> [kind |-> "nil", path |-> Empty]]
         ELSE [content |-> w.content[path], err |-> [kind |-> "nil", path |-> Empty]]

\* osReadFile: [content, err]. os.ReadFile fails with an error that names the
\* path ("open <path>: ..."); bytes that are not valid UTF-8 give
\* "invalid UTF-8 encoding in <path>".
osReadFile(w, path) ==
    IF w.status[path] = "oserr"
    THEN [content |-> <<>>, err |-> [kind |-> "open", path |-> path]]
    ELSE IF w.status[path] = "badutf8"
         THEN [content |-> <<>>, err |-> [kind |-> "invalid UTF-8 encoding", path |-> path]]
         ELSE [content |-> w.content[path], err |-> NoError]

\* source walks that answer SkipDir for ".git" only
sourceWalkSkipped_gitOnly(w) ==
    {d \in TreeDirs(w.root, w.tree) : Base(d) = <<46,103,105,116>>}

\* the directories for which the source walks answer SkipDir: ".git" and the
\* excluded ones
sourceWalkSkipped(w) ==
    {d \in TreeDirs(w.root, w.tree) :
        Base(d) = <<46,103,105,116>> \/ matchesAny(Rel(w.root, d), w.exclude)}

\* the files that pass the filters shared by the two source walks
sourceWalkFiles(w) ==
    SelectSeq(WalkVisits(w.root, w.tree, sourceWalkSkipped(w)),
              LAMBDA p :
                  /\ p \in w.tree.files
                  /\ ~matchesAny(Rel(w.root, p), w.exclude)
                  /\ (Len(w.include) = 0 \/ matchesAny(Rel(w.root, p), w.include))
                  /\ ~Contains(p, XcassetsSuffix \o Slash))

\* a walk that keeps the labels of the file read last only
RECURSIVE labelWalk_lastFileWins(_, _, _)
labelWalk_lastFileWins(w, files, labels) ==
    IF files = <<>> THEN [labels |-> labels, err |-> NoError]
    ELSE LET r == osReadFile(w, files[1])
         IN  IF r.err # NoError THEN [labels |-> {}, err |-> r.err]
             ELSE labelWalk_lastFileWins(w, Tail(files), labelsOfContent(r.content))

\* collectSwiftResourceArgumentLabelAssetTypes: reads every eligible .swift
\* file in walk order; the first failing read ends the walk with its error
RECURSIVE labelWalk(_, _, _)
labelWalk(w, files, labels) ==
    IF files = <<>> THEN [labels |-> labels, err |-> NoError]
    ELSE LET r == osReadFile(w, files[1])
         IN  IF r.err # NoError THEN [labels |-> {}, err |-> r.err]
             ELSE labelWalk(w, Tail(files), labels \cup labelsOfContent(r.content))

collectSwiftResourceArgumentLabelAssetTypes(w) ==
    labelWalk(w, SelectSeq(sourceWalkFiles(w), LAMBDA p : ToLower(Ext(p)) = SwiftExt), {})

\* the paths the walk of collectUsedAssets sends on fileCh, in order
eligibleSourceFiles(w) ==
    SelectSeq(sourceWalkFiles(w), LAMBDA p : ToLower(Ext(p)) \in sourceExtensions)

(***************************************************************************)
(* Aggregation (Scan, after collectUsedAssets has returned)                *)
(***************************************************************************)

\* the zero Result returned with an error
EmptyResult ==
    [AssetCatalogs |-> 0, AssetNames |-> <<>>, UsedAssets |-> <<>>,
     UnusedAssets |-> <<>>, UnusedByFile |-> <<>>]

\* the lists that enumerate a set once each: the orders in which a range over
\* a Go map may deliver its keys
Listings(S) ==
    {l \in [1..Cardinality(S) -> S] : \A i, j \in 1..Cardinality(S) : l[i] = l[j] => i = j}

\* the three name sets Scan fills in its loop over discoveredAssets: an asset
\* whose path is in usedAssetPaths adds its summary name to usedNames and is
\* skipped; any other asset adds its summary name to unusedNames
scanAssetNames(discoveredAssets) ==
    {summaryNameForAsset(discoveredAssets, discoveredAssets[i]) : i \in 1..Len(discoveredAssets)}

scanUsedNames(discoveredAssets, usedAssetPaths) ==
    {summaryNameForAsset(discoveredAssets, discoveredAssets[i]) :
        i \in {j \in 1..Len(discoveredAssets) : discoveredAssets[j].AssetPath \in usedAssetPaths}}

scanUnusedNames(discoveredAssets, usedAssetPaths) ==
    {summaryNameForAsset(discoveredAssets, discoveredAssets[i]) :
        i \in {j \in 1..Len(discoveredAssets) : discoveredAssets[j].AssetPath \notin usedAssetPaths}}

\* a grouping that lists every asset set of a catalog, the used ones too
scanUnusedByFile_everyAsset(discoveredAssets, usedAssetPaths) ==
    LET ofCatalog(c) == SelectSeq(discoveredAssets, LAMBDA a : a.CatalogPath = c)
    IN  [c \in {discoveredAssets[i].CatalogPath : i \in 1..Len(discoveredAssets)} |->
            SortStrings([i \in 1..Len(ofCatalog(c)) |-> ofCatalog(c)[i].AssetPath])]

\* unusedByFile: catalog path -> the sorted unused asset paths below it
scanUnusedByFile(discoveredAssets, usedAssetPaths) ==
    LET unused == SelectSeq(discoveredAssets, LAMBDA a : a.AssetPath \notin usedAssetPaths)
        ofCatalog(c) == SelectSeq(unused, LAMBDA a : a.CatalogPath = c)
    IN  [c \in {unused[i].CatalogPath : i \in 1..Len(unused)} |->
            SortStrings([i \in 1..Len(ofCatalog(c)) |-> ofCatalog(c)[i].AssetPath])]

\* a Result whose lists keep the order in which the maps were ranged over
scanResult_unsorted(assetCatalogs, discoveredAssets, usedAssetPaths, namesOrder, usedOrder, unusedOrder) ==
    [AssetCatalogs |-> assetCatalogs,
     AssetNames |-> namesOrder,
     UsedAssets |-> usedOrder,
     UnusedAssets |-> unusedOrder,
     UnusedByFile |-> scanUnusedByFile(discoveredAssets, usedAssetPaths)]

\* the Result of a successful Scan; namesOrder, usedOrder and unusedOrder are
\* the orders in which the three maps were ranged over before slices.Sort
scanResult(assetCatalogs, discoveredAssets, usedAssetPaths, namesOrder, usedOrder, unusedOrder) ==
    [AssetCatalogs |-> assetCatalogs,
     AssetNames |-> SortStrings(namesOrder),
     UsedAssets |-> SortStrings(usedOrder),
     UnusedAssets |-> SortStrings(unusedOrder),
     UnusedByFile |-> scanUnusedByFile(discoveredAssets, usedAssetPaths)]

(***************************************************************************)
(* Bounds and the inputs of the model                                      *)
(***************************************************************************)

\* the largest worker count tried (Options.Workers)
MaxWorkers == 2

\* the largest number of asset-set directories created in one tree
MaxAssets == 2

\* the largest number of unreadable source files in one tree
MaxFailing == 1

\* the largest worker count tried on the trees that exercise the worker pool
MaxPoolWorkers == 1

\* the number of source files of those trees: more than the 2N paths fileCh holds
MaxPoolFiles == 4

\* "/r" : Options.Root
Root == <<47,114>>

\* asset names "x", "y"
NameX == <<120>>
NameY == <<121>>

\* "/r/A/C.xcassets/x.imageset", "/r/B/C.xcassets/x.imageset",
\* "/r/A/C.xcassets/x.colorset", "/r/A/C.xcassets/x.colorset/y.imageset" (an
\* asset set inside an asset set), "/r/F/z.imageset" (outside any catalog)
AssetAXImage == <<47,114,47,65,47,67,46,120,99,97,115,115,101,116,115,47,120,46,105,109,97,103,101,115,101,116>>
AssetBXImage == <<47,114,47,66,47,67,46,120,99,97,115,115,101,116,115,47,120,46,105,109,97,103,101,115,101,116>>
AssetAXColor == <<47,114,47,65,47,67,46,120,99,97,115,115,101,116,115,47,120,46,99,111,108,111,114,115,101,116>>
AssetNestedY == <<47,114,47,65,47,67,46,120,99,97,115,115,101,116,115,47,120,46,99,111,108,111,114,115,101,116,47,121,46,105,109,97,103,101,115,101,116>>
AssetOutsideZ == <<47,114,47,70,47,122,46,105,109,97,103,101,115,101,116>>
AssetUniverse == {AssetAXImage, AssetBXImage, AssetAXColor, AssetNestedY, AssetOutsideZ}

\* "/r/A/f.swift", "/r/m.storyboard"
FileSwift == <<47,114,47,65,47,102,46,115,119,105,102,116>>
FileStoryboard == <<47,114,47,109,46,115,116,111,114,121,98,111,97,114,100>>

\* what a file of the given extension may contain
ContentChoices(path) ==
    IF Ext(path) = SwiftExt
    THEN {<<>>,
          <<Token("UIImage(named:)", Empty, NameX)>>,
          <<Token("UIColor(named:)", Empty, NameX)>>,
          <<Token("UIImage(named:)", Empty, NameY)>>,
          <<Token("UIColor(resource:)", Empty, NameX)>>}
    ELSE IF Ext(path) = StoryboardExt
         THEN {<<>>,
               <<Token("<color name=", Empty, NameX)>>,
               <<Token("image=", Empty, NameX)>>,
               <<Token("<capability name=", Empty, NameX)>>}
         ELSE {<<>>, <<Token("[UIImage imageNamed:]", Empty, NameX)>>}

ContentMaps(files) ==
    {c \in [files -> UNION {ContentChoices(f) : f \in files}] :
        \A f \in files : c[f] \in ContentChoices(f)}

\* the ways at most MaxFailing of the files are unreadable
StatusChoices(files) ==
    {st \in [files -> {"ok", "oserr", "badutf8"}] :
        Cardinality({f \in files : st[f] # "ok"}) <= MaxFailing}

\* the trees that exercise inventory, extraction and resolution
ResolutionWorlds ==
    {[root |-> Root, include |-> <<>>, exclude |-> <<>>, workers |-> n,
      tree |-> [dirs |-> dirs, files |-> {FileSwift, FileStoryboard}],
      content |-> content, status |-> status] :
        n \in 1..MaxWorkers,
        dirs \in {S \in SUBSET AssetUniverse : Cardinality(S) <= MaxAssets},
        content \in ContentMaps({FileSwift, FileStoryboard}),
        status \in StatusChoices({FileSwift, FileStoryboard})}

\* "/r/s/a.m" ... "/r/s/f.m"
PoolFileList ==
    << <<47,114,47,115,47,97,46,109>>,
       <<47,114,47,115,47,98,46,109>>,
       <<47,114,47,115,47,99,46,109>>,
       <<47,114,47,115,47,100,46,109>>,
       <<47,114,47,115,47,101,46,109>>,
       <<47,114,47,115,47,102,46,109>> >>

PoolFiles == {PoolFileList[i] : i \in 1..(IF MaxPoolFiles < 6 THEN MaxPoolFiles ELSE 6)}

\* a tree without asset sets in which a worker's read fails: the files given,
\* empty and readable, and an unreadable storyboard, scanned by one worker
UnreadableWorld(files, exclude) ==
    [root |-> Root, include |-> <<>>, exclude |-> exclude, workers |-> 1,
     tree |-> [dirs |-> {}, files |-> files \cup {FileStoryboard}],
     content |-> [f \in files \cup {FileStoryboard} |-> <<>>],
     status |-> [f \in files \cup {FileStoryboard} |->
                    IF f = FileStoryboard THEN "oserr" ELSE "ok"]]

\* the trees that exercise the worker pool: more files than the queue holds,
\* any subset of them unreadable
PoolWorlds ==
    {[root |-> Root, include |-> <<>>, exclude |-> <<>>, workers |-> n,
      tree |-> [dirs |-> {AssetAXImage}, files |-> PoolFiles],
      content |-> [f \in PoolFiles |-> <<Token("[UIImage imageNamed:]", Empty, NameX)>>],
      status |-> status] :
        n \in 1..MaxPoolWorkers,
        status \in [PoolFiles -> {"ok", "oserr"}]}

(***************************************************************************)
(* Scan as a state machine: the calling goroutine (inventory, label        *)
(* prepass, the walk that feeds fileCh, the wait and the aggregation) and  *)
(* the worker goroutines of collectUsedAssets                              *)
(***************************************************************************)

VARIABLES
    world,            \* Options and the directory tree scanned
    pc,               \* where the calling goroutine is: idle, start, walk, wait, done
    assetCatalogs,    \* collectAssets' catalog count
    discoveredAssets, \* collectAssets' inventory, sorted by AssetPath
    labelAssetTypes,  \* swiftResourceLabelAssetTypes
    pending,          \* the eligible paths the walk has not reached yet
    fileCh,           \* the buffered channel of paths, capacity 2 * workers
    closed,           \* whether fileCh has been closed
    errCh,            \* the buffered error channel, capacity 1
    usedSet,          \* the shared set of used asset paths
    usedMu,           \* the worker holding usedMu, 0 when free
    wpc,              \* where each worker is: idle, recv, read, publish, lock, insert, exit
    wpath,            \* the path each worker took from fileCh
    wins,             \* the insertions each worker still has to make for its file
    werr,             \* the read error each worker has in hand, not yet published
    result,           \* the Result Scan returns
    err,              \* the error Scan returns
    walkErr,          \* the error of the walk of collectUsedAssets
    firstErr,         \* history: the first error that occurred during the scan
    cli               \* the caller of the cli package: flags, disk, exit code, output

vars == <<world, pc, assetCatalogs, discoveredAssets, labelAssetTypes, pending,
          fileCh, closed, errCh, usedSet, usedMu, wpc, wpath, wins, result, err,
          werr, walkErr, firstErr, cli>>

Workers == 1..world.workers

\* the state before Scan has done anything; pc0 is "start" when Scan is
\* called directly and "idle" when the cli package is to call it
InitWith(worlds, pc0) ==
    /\ world \in worlds
    /\ pc = pc0
    /\ assetCatalogs = 0
    /\ discoveredAssets = <<>>
    /\ labelAssetTypes = {}
    /\ pending = <<>>
    /\ fileCh = <<>>
    /\ closed = FALSE
    /\ errCh = <<>>
    /\ usedSet = {}
    /\ usedMu = 0
    /\ wpc = [w \in 1..world.workers |-> "idle"]
    /\ wpath = [w \in 1..world.workers |-> Empty]
    /\ wins = [w \in 1..world.workers |-> <<>>]
    /\ werr = [w \in 1..world.workers |-> NoError]
    /\ result = EmptyResult
    /\ err = NoError
    /\ walkErr = NoError
    /\ firstErr = NoError

\* assets.Scan called directly, as the tests of the assets package call it
NoCommand(w) == {[cmd |-> "none"]}

Init == InitWith(ResolutionWorlds, "start") /\ cli \in NoCommand(world)

InitPool == InitWith(PoolWorlds, "start") /\ cli \in NoCommand(world)

\* Scan up to the start of the walk of collectUsedAssets: the inventory, the
\* label prepass (whose read error makes Scan return at once) and the start
\* of the workers
ScanBegin ==
    /\ pc = "start"
    /\ LET inv == collectAssets(world.root, world.tree, world.include, world.exclude)
           lab == collectSwiftResourceArgumentLabelAssetTypes(world)
       IN  IF lab.err # NoError
           THEN /\ pc' = "done"
                /\ err' = lab.err
                /\ firstErr' = lab.err
                /\ UNCHANGED <<assetCatalogs, discoveredAssets, labelAssetTypes, pending, wpc>>
           ELSE /\ pc' = "walk"
                /\ assetCatalogs' = inv.assetCatalogs
                /\ discoveredAssets' = inv.discoveredAssets
                /\ labelAssetTypes' = lab.labels
                /\ pending' = eligibleSourceFiles(world)
                /\ wpc' = [w \in Workers |-> "recv"]
                /\ err' = err
                /\ firstErr' = firstErr
    /\ UNCHANGED <<world, fileCh, closed, errCh, usedSet, usedMu, wpath, wins, result, cli,
                   walkErr, werr>>

\* a queue that holds one path more than 2 * workers
fileChCapacity_oneMore(workers) == workers * 2 + 1

\* make(chan string, workers*2): the capacity of fileCh
fileChCapacity(workers) == workers * 2

\* fileCh <- path: blocks while the channel holds 2 * workers paths
WalkerSend ==
    /\ pc = "walk"
    /\ pending # <<>>
    /\ Len(fileCh) < fileChCapacity(world.workers)
    /\ fileCh' = Append(fileCh, Head(pending))
    /\ pending' = Tail(pending)
    /\ UNCHANGED <<world, pc, assetCatalogs, discoveredAssets, labelAssetTypes, closed,
                   errCh, usedSet, usedMu, wpc, wpath, wins, result, err, cli,
                   walkErr, firstErr, werr>>

\* the walk has returned: close(fileCh), then wg.Wait()
WalkerClose ==
    /\ pc = "walk"
    /\ pending = <<>>
    /\ closed' = TRUE
    /\ pc' = "wait"
    /\ UNCHANGED <<world, assetCatalogs, discoveredAssets, labelAssetTypes, pending, fileCh,
                   errCh, usedSet, usedMu, wpc, wpath, wins, result, err, cli,
                   walkErr, firstErr, werr>>

\* for path := range fileCh : one path received
WorkerRecv(w) ==
    /\ wpc[w] = "recv"
    /\ fileCh # <<>>
    /\ wpath' = [wpath EXCEPT ![w] = Head(fileCh)]
    /\ fileCh' = Tail(fileCh)
    /\ wpc' = [wpc EXCEPT ![w] = "read"]
    /\ UNCHANGED <<world, pc, assetCatalogs, discoveredAssets, labelAssetTypes, pending,
                   closed, errCh, usedSet, usedMu, wins, result, err, cli,
                   walkErr, firstErr, werr>>

\* for path := range fileCh : the channel is closed and drained, wg.Done()
WorkerExit(w) ==
    /\ wpc[w] = "recv"
    /\ fileCh = <<>>
    /\ closed
    /\ wpc' = [wpc EXCEPT ![w] = "exit"]
    /\ UNCHANGED <<world, pc, assetCatalogs, discoveredAssets, labelAssetTypes, pending,
                   fileCh, closed, errCh, usedSet, usedMu, wpath, wins, result, err, cli,
                   walkErr, firstErr, werr>>

\* select { case errCh <- err: default: } : the error is kept if the slot is
\* free and dropped otherwise; the send never blocks
publishError(ch, e) == IF Len(ch) < 1 THEN Append(ch, e) ELSE ch

\* a worker that returned after a failed read instead of going on
workerAfterReadError_return == "exit"

\* the "continue" after a failed read: the worker goes back to receive the
\* next path
workerAfterReadError == "recv"

\* osReadFile(path) returns: with an error, which the worker has in hand, or
\* with the content, whose references are extracted and resolved; the ranges
\* over the asset types of a label yield them in one of their orders
WorkerRead(w) ==
    /\ wpc[w] = "read"
    /\ LET r == osReadFile(world, wpath[w])
       IN  IF r.err # NoError
           THEN /\ werr' = [werr EXCEPT ![w] = r.err]
                /\ wpc' = [wpc EXCEPT ![w] = "publish"]
                /\ wins' = wins
                /\ firstErr' = IF firstErr = NoError THEN r.err ELSE firstErr
           ELSE /\ \E colorFirst \in SUBSET RangeOrderSites(r.content, labelAssetTypes) :
                       LET ins == fileInsertions(discoveredAssets, labelAssetTypes,
                                                 wpath[w], r.content, colorFirst)
                       IN  /\ wins' = [wins EXCEPT ![w] = ins]
                           /\ wpc' = [wpc EXCEPT ![w] = IF ins = <<>> THEN "recv" ELSE "lock"]
                /\ werr' = werr
                /\ firstErr' = firstErr
    /\ UNCHANGED <<world, pc, assetCatalogs, discoveredAssets, labelAssetTypes, pending,
                   fileCh, closed, errCh, usedSet, usedMu, wpath, result, err, cli,
                   walkErr>>

\* select { case errCh <- err: default: }, then "continue"
WorkerPublish(w) ==
    /\ wpc[w] = "publish"
    /\ errCh' = publishError(errCh, werr[w])
    /\ werr' = [werr EXCEPT ![w] = NoError]
    /\ wpc' = [wpc EXCEPT ![w] = workerAfterReadError]
    /\ UNCHANGED <<world, pc, assetCatalogs, discoveredAssets, labelAssetTypes, pending,
                   fileCh, closed, usedSet, usedMu, wpath, wins, result, err, cli,
                   walkErr, firstErr>>

\* an insertion that is entered without waiting for the mutex
WorkerLock_noWait(w) ==
    /\ wpc[w] = "lock"
    /\ usedMu' = w
    /\ wpc' = [wpc EXCEPT ![w] = "insert"]
    /\ UNCHANGED <<world, pc, assetCatalogs, discoveredAssets, labelAssetTypes, pending,
                   fileCh, closed, errCh, usedSet, wpath, wins, result, err, cli,
                   walkErr, firstErr, werr>>

\* usedMu.Lock()
WorkerLock(w) ==
    /\ wpc[w] = "lock"
    /\ usedMu = 0
    /\ usedMu' = w
    /\ wpc' = [wpc EXCEPT ![w] = "insert"]
    /\ UNCHANGED <<world, pc, assetCatalogs, discoveredAssets, labelAssetTypes, pending,
                   fileCh, closed, errCh, usedSet, wpath, wins, result, err, cli,
                   walkErr, firstErr, werr>>

\* usedSet[asset.AssetPath] = struct{}{} for each selected asset; usedMu.Unlock()
WorkerInsert(w) ==
    /\ wpc[w] = "insert"
    /\ usedSet' = usedSet \cup Head(wins[w])
    /\ usedMu' = 0
    /\ wins' = [wins EXCEPT ![w] = Tail(wins[w])]
    /\ wpc' = [wpc EXCEPT ![w] = IF Tail(wins[w]) = <<>> THEN "recv" ELSE "lock"]
    /\ UNCHANGED <<world, pc, assetCatalogs, discoveredAssets, labelAssetTypes, pending,
                   fileCh, closed, errCh, wpath, result, err, cli, walkErr, firstErr, werr>>

\* wg.Wait() has returned: the error slot is read, then walkErr, and without
\* an error Scan aggregates
ScanFinish ==
    /\ pc = "wait"
    /\ \A w \in Workers : wpc[w] = "exit"
    /\ pc' = "done"
    /\ IF errCh # <<>>
       THEN /\ err' = Head(errCh)
            /\ errCh' = <<>>
            /\ result' = EmptyResult
       ELSE IF walkErr # NoError
       THEN /\ err' = walkErr
            /\ errCh' = errCh
            /\ result' = EmptyResult
       ELSE /\ err' = NoError
            /\ errCh' = errCh
            /\ \E namesOrder \in Listings(scanAssetNames(discoveredAssets)),
                  usedOrder \in Listings(scanUsedNames(discoveredAssets, usedSet)),
                  unusedOrder \in Listings(scanUnusedNames(discoveredAssets, usedSet)) :
                   result' = scanResult(assetCatalogs, discoveredAssets, usedSet,
                                        namesOrder, usedOrder, unusedOrder)
    /\ UNCHANGED <<world, assetCatalogs, discoveredAssets, labelAssetTypes, pending, fileCh,
                   closed, usedSet, usedMu, wpc, wpath, wins, cli, walkErr, firstErr, werr>>

Next ==
    \/ ScanBegin
    \/ WalkerSend
    \/ WalkerClose
    \/ \E w \in Workers : WorkerRecv(w)
    \/ \E w \in Workers : WorkerExit(w)
    \/ \E w \in Workers : WorkerRead(w)
    \/ \E w \in Workers : WorkerPublish(w)
    \/ \E w \in Workers : WorkerLock(w)
    \/ \E w \in Workers : WorkerInsert(w)
    \/ ScanFinish

Spec == Init /\ [][Next]_vars

SpecPool == InitPool /\ [][Next]_vars

\* a step of the calling goroutine out of "start": a ScanBegin step
ScanBegun == pc = "start" /\ pc' \in {"walk", "done"}

\* a step of a worker out of "read": a WorkerRead step
WorkerHasRead ==
    \E w \in Workers :
        /\ wpc[w] = "read"
        /\ wpc' \in {[wpc EXCEPT ![w] = to] : to \in {"recv", "lock", "publish"}}

\* a step of Scan once it has begun, other than a WorkerRead step
ScanRuns ==
    /\ pc # "start"
    /\ \/ WalkerSend
       \/ WalkerClose
       \/ \E w \in Workers : WorkerRecv(w)
       \/ \E w \in Workers : WorkerExit(w)
       \/ \E w \in Workers : WorkerPublish(w)
       \/ \E w \in Workers : WorkerLock(w)
       \/ \E w \in Workers : WorkerInsert(w)
       \/ ScanFinish

\* the Go scheduler runs every goroutine that can take a step: the caller
\* begins the scan, a worker that holds a path reads it, and while some other
\* goroutine of the scan can take a step one of them does
SpecPoolFair ==
    InitPool /\ [][Next]_vars /\ WF_pc(ScanBegun) /\ WF_wpc(WorkerHasRead) /\ WF_vars(ScanRuns)

(***************************************************************************)
(* The cli package: the disk, Execute's exit codes, and "assets prune"     *)
(***************************************************************************)

\* A disk is [entries |-> the paths of its directories and files,
\*            links |-> its symbolic links, each [from |-> path, to |-> path]]

\* what the kernel does to the directory part of a path: the symbolic links
\* among the parent components are followed, the last component is left
RECURSIVE resolveParents(_, _, _)
resolveParents(fs, p, fuel) ==
    LET through == {l \in fs.links : HasPrefix(p, l.from \o Slash)}
    IN  IF fuel = 0 \/ through = {} THEN p
        ELSE LET l == CHOOSE x \in through : \A y \in through : Len(x.from) <= Len(y.from)
             IN  resolveParents(fs, l.to \o Slice(p, Len(l.from), Len(p)), fuel - 1)

\* os.RemoveAll(path): a path whose last component is a symbolic link loses
\* the link and nothing else; a directory is removed with all below it; a
\* path that does not exist is no error
RemoveAll(fs, path) ==
    LET q == resolveParents(fs, path, Cardinality(fs.links))
        below(e) == e = q \/ HasPrefix(e, q \o Slash)
    IN  IF \E l \in fs.links : l.from = q
        THEN [fs EXCEPT !.links = {l \in fs.links : l.from # q}]
        ELSE [entries |-> {e \in fs.entries : ~below(e)},
              links |-> {l \in fs.links : ~below(l.from)}]

exitSuccess == 0
exitFailure == 1
exitUsage == 2
exitUnusedAssets == 3

\* an error as Execute sees it: whether it is a usageError, and err.Error()
NoCliError == [usage |-> FALSE, unused |-> FALSE, message |-> Empty]

\* the error of a failed Scan, with the message of its cause
scanError(e) ==
    [usage |-> FALSE, unused |-> FALSE,
     message |-> IF e.kind = "open"
                 THEN <<111,112,101,110,32>> \o e.path \o <<58,32,112,101,114,109,105,115,115,105,111,110,32,100,101,110,105,101,100>>
                 ELSE <<105,110,118,97,108,105,100,32,85,84,70,45,56,32,101,110,99,111,100,105,110,103,32,105,110,32>> \o e.path]

\* "unknown command", "unknown flag", "unknown shorthand flag",
\* "flag needs an argument", "required flag", "accepts ", "requires at least",
\* "requires at most", "requires exactly"
usageIndicators ==
    {<<117,110,107,110,111,119,110,32,99,111,109,109,97,110,100>>,
     <<117,110,107,110,111,119,110,32,102,108,97,103>>,
     <<117,110,107,110,111,119,110,32,115,104,111,114,116,104,97,110,100,32,102,108,97,103>>,
     <<102,108,97,103,32,110,101,101,100,115,32,97,110,32,97,114,103,117,109,101,110,116>>,
     <<114,101,113,117,105,114,101,100,32,102,108,97,103>>,
     <<97,99,99,101,112,116,115,32>>,
     <<114,101,113,117,105,114,101,115,32,97,116,32,108,101,97,115,116>>,
     <<114,101,113,117,105,114,101,115,32,97,116,32,109,111,115,116>>,
     <<114,101,113,117,105,114,101,115,32,101,120,97,99,116,108,121>>}

isUsageExecutionError(e) ==
    \/ e.usage
    \/ \E indicator \in usageIndicators : Contains(ToLower(e.message), indicator)

\* an Execute that does not know unusedAssetsFoundError
Execute_unusedAsFailure(e) ==
    IF isUsageExecutionError(e)
    THEN [exit |-> exitUsage,
          stderr |-> <<[code |-> "usage_error", message |-> e.message]>>]
    ELSE [exit |-> exitFailure,
          stderr |-> <<[code |-> "runtime_error", message |-> e.message]>>]

\* what Execute makes of the error the command returned: the exit code and
\* the envelope written to stderr
Execute(e) ==
    IF isUsageExecutionError(e)
    THEN [exit |-> exitUsage,
          stderr |-> <<[code |-> "usage_error", message |-> e.message]>>]
    ELSE IF e.unused
         THEN [exit |-> exitUnusedAssets, stderr |-> <<>>]
         ELSE [exit |-> exitFailure,
               stderr |-> <<[code |-> "runtime_error", message |-> e.message]>>]

\* filepath.Clean, its pass over the elements of the path: empty elements and
\* "." are dropped, ".." takes the element before it away, stays at the front
\* of a relative path and is dropped at the root
RECURSIVE CleanElements(_, _, _)
CleanElements(elems, rooted, out) ==
    IF elems = <<>> THEN out
    ELSE LET e == Head(elems)
         IN  IF e = <<>> \/ e = Dot THEN CleanElements(Tail(elems), rooted, out)
             ELSE IF e = <<46, 46>>
             THEN IF out # <<>> /\ out[Len(out)] # <<46, 46>>
                  THEN CleanElements(Tail(elems), rooted, SubSeq(out, 1, Len(out) - 1))
                  ELSE IF rooted THEN CleanElements(Tail(elems), rooted, out)
                  ELSE CleanElements(Tail(elems), rooted, Append(out, e))
             ELSE CleanElements(Tail(elems), rooted, Append(out, e))

\* strings.Join(elems, "/")
RECURSIVE JoinSlash(_)
JoinSlash(elems) ==
    IF elems = <<>> THEN <<>>
    ELSE IF Len(elems) = 1 THEN elems[1]
    ELSE elems[1] \o Slash \o JoinSlash(Tail(elems))

\* filepath.Clean where '/' is the separator
Clean(path) ==
    IF path = <<>> THEN Dot
    ELSE LET rooted == path[1] = 47
             joined == JoinSlash(CleanElements(SplitSlash(path), rooted, <<>>))
         IN  IF rooted THEN Slash \o joined
             ELSE IF joined = <<>> THEN Dot ELSE joined

\* filepath.Join of two elements: empty elements are ignored, the result is
\* cleaned
filepathJoin(a, b) ==
    IF a = <<>> /\ b = <<>> THEN <<>>
    ELSE IF a = <<>> THEN Clean(b)
    ELSE IF b = <<>> THEN Clean(a)
    ELSE Clean(a \o Slash \o b)

\* an error of the cli package that is neither a usage error nor the report of
\* unused assets
runtimeError(message) == [usage |-> FALSE, unused |-> FALSE, message |-> message]

\* expandTildePath: [path, err]. home is what os.UserHomeDir returns, the
\* directory or the message of its error
expandTildePath(path, home) ==
    IF path = <<126>> \/ HasPrefix(path, <<126, 47>>)
    THEN IF home.err # Empty
         THEN [path |-> Empty,
               err |-> runtimeError(<<102,97,105,108,101,100,32,116,111,32,114,101,115,111,108,118,101,32,104,111,109,101,32,100,105,114,101,99,116,111,114,121,58,32>> \o home.err)]
         ELSE [path |-> IF path = <<126>> THEN home.dir
                        ELSE filepathJoin(home.dir, Slice(path, 2, Len(path))),
               err |-> NoCliError]
    ELSE [path |-> path, err |-> NoCliError]

\* filepath.Abs: [path, err message]. An absolute path is cleaned, another is
\* joined to what os.Getwd returns, the directory or the message of its error
filepathAbs(path, cwd) ==
    IF HasPrefix(path, Slash) THEN [path |-> Clean(path), err |-> Empty]
    ELSE IF cwd.err # Empty THEN [path |-> Empty, err |-> cwd.err]
    ELSE [path |-> filepathJoin(cwd.dir, path), err |-> Empty]

\* resolveScanPath: [path, err]. env is what the process finds: the home
\* directory, the working directory, and what os.Stat reports for the absolute
\* path ("dir", "file" or "missing" for its error)
resolveScanPath(path, env) ==
    LET expanded == expandTildePath(path, env.home)
        absolute == filepathAbs(expanded.path, env.cwd)
    IN  IF expanded.err # NoCliError THEN [path |-> Empty, err |-> expanded.err]
        ELSE IF absolute.err # Empty
        THEN [path |-> Empty,
              err |-> runtimeError(<<102,97,105,108,101,100,32,116,111,32,114,101,115,111,108,118,101,32,112,97,116,104,32>> \o Quote(path)
                                   \o <<58,32>> \o absolute.err)]
        ELSE IF env.stat = "missing"
        THEN [path |-> Empty,
              err |-> runtimeError(<<112,97,116,104,32,100,111,101,115,32,110,111,116,32,101,120,105,115,116,32,111,114,32,105,115,32,105,110,97,99,99,101,115,115,105,98,108,101,58,32>>
                                   \o absolute.path)]
        ELSE IF env.stat # "dir"
        THEN [path |-> Empty,
              err |-> runtimeError(<<112,97,116,104,32,105,115,32,110,111,116,32,97,32,100,105,114,101,99,116,111,114,121,58,32>> \o absolute.path)]
        ELSE [path |-> absolute.path, err |-> NoCliError]

\* os.UserHomeDir and os.Getwd failing
HomeUnset == [dir |-> Empty, err |-> <<36,72,79,77,69,32,105,115,32,110,111,116,32,100,101,102,105,110,101,100>>]
NoWorkingDir == [dir |-> Empty, err |-> <<103,101,116,119,100,58,32,110,111,32,115,117,99,104,32,102,105,108,101,32,111,114,32,100,105,114,101,99,116,111,114,121>>]

\* the values of --path and what the process finds for them: the root, a
\* directory; and, where every is set, the root as a regular file and
\* missing; "~" and "~/x" without a home directory; "~/x" missing below the
\* home directory; a relative path without a working directory; and further
\* spellings of the root: "~" and "~/" with the root as home directory, a path
\* relative to "/", and the root with "/./" and "/x/../" in it
PathCases(root, every) ==
    LET home == [dir |-> root, err |-> Empty]
        cwd == [dir |-> Slash, err |-> Empty]
        case(path, h, c, stat) ==
            [path |-> path, env |-> [home |-> h, cwd |-> c, stat |-> stat]]
        relative == TrimPrefix(root, Slash)
    IN  {case(root, home, cwd, "dir")}
        \cup (IF every
              THEN {case(root, home, cwd, "file"),
                    case(root, home, cwd, "missing"),
                    case(<<126>>, HomeUnset, cwd, "dir"),
                    case(<<126,47,120>>, HomeUnset, cwd, "dir"),
                    case(<<126,47,120>>, home, cwd, "missing"),
                    case(relative, home, NoWorkingDir, "dir"),
                    case(<<126>>, home, cwd, "dir"),
                    case(<<126,47>>, home, cwd, "dir"),
                    case(relative, home, cwd, "dir"),
                    case(root \o <<47,46,47,120,47,46,46,47>>, home, cwd, "dir")}
              ELSE {})

\* the --path that is the root itself, a directory
RootPath(root) ==
    [path |-> root,
     env |-> [home |-> [dir |-> root, err |-> Empty],
              cwd |-> [dir |-> Slash, err |-> Empty], stat |-> "dir"]]

isPrunableAssetSetPath(path) == Ext(path) \in {ImagesetExt, ColorsetExt, DatasetExt}

\* a collection that stops after the group of one catalog
collectPruneTargets_oneGroup(grouped) ==
    IF DOMAIN grouped = {} THEN <<>>
    ELSE LET c == CHOOSE k \in DOMAIN grouped : \A j \in DOMAIN grouped : ~StrLess(j, k)
         IN  SortedSet({p \in Range(grouped[c]) : Ext(p) \in {ImagesetExt, ColorsetExt, DatasetExt}})

\* the prunable paths of every group, once each, sorted
collectPruneTargets(grouped) ==
    SortedSet({p \in UNION {Range(grouped[c]) : c \in DOMAIN grouped} :
                  isPrunableAssetSetPath(p)})

\* deletePruneTargets: each path in turn is checked for its extension and
\* handed to os.RemoveAll; [fs |-> the disk afterwards, err |-> the error]
RECURSIVE deletePruneTargets(_, _)
deletePruneTargets(fs, paths) ==
    IF paths = <<>> THEN [fs |-> fs, err |-> NoCliError]
    ELSE IF ~isPrunableAssetSetPath(Head(paths))
         THEN [fs |-> fs,
               err |-> [usage |-> FALSE, unused |-> FALSE,
                        message |-> <<114,101,102,117,115,105,110,103,32,116,111,32,100,101,108,101,116,101,32,110,111,110,45,97,115,115,101,116,45,115,101,116,32,112,97,116,104,58,32>> \o Head(paths)]]
         ELSE deletePruneTargets(RemoveAll(fs, Head(paths)), Tail(paths))

\* what "git -C root status --porcelain" did: the message of the error of
\* cmd.CombinedOutput (empty when git exited with 0) and what git printed.
\* A clean tree, a modified file, git failing outside a repository, and git
\* that cannot be started
GitClean == [err |-> Empty, out |-> Empty]
GitDirty == [err |-> Empty, out |-> <<32,77,32,65,47,102,46,115,119,105,102,116>> \o <<10>>]
GitNotRepo ==
    [err |-> <<101,120,105,116,32,115,116,97,116,117,115,32,49,50,56>>,
     out |-> <<102,97,116,97,108,58,32,110,111,116,32,97,32,103,105,116,32,114,101,112,111,115,105,116,111,114,121,32,40,111,114,32,97,110,121,32,111,102,32,116,104,101,32,112,97,114,101,110,116,32,100,105,114,101,99,116,111,114,105,101,115,41,58,32,46,103,105,116>> \o <<10>>]
GitMissing ==
    [err |-> <<101,120,101,99,58,32,34,103,105,116,34,58,32,101,120,101,99,117,116,97,98,108,101,32,102,105,108,101,32,110,111,116,32,102,111,117,110,100,32,105,110,32,36,80,65,84,72>>, out |-> Empty]

\* a check of the working tree that lets every tree pass
requireCleanGitWorkingTree_alwaysClean(git) == NoCliError

\* requireCleanGitWorkingTree
requireCleanGitWorkingTree(git) ==
    LET message == TrimSpace(git.out)
    IN  IF git.err # Empty
        THEN IF message = Empty
             THEN runtimeError(<<102,97,105,108,101,100,32,116,111,32,99,104,101,99,107,32,103,105,116,32,119,111,114,107,105,110,103,32,116,114,101,101,58,32>> \o git.err)
             ELSE runtimeError(<<102,97,105,108,101,100,32,116,111,32,99,104,101,99,107,32,103,105,116,32,119,111,114,107,105,110,103,32,116,114,101,101,58,32>> \o git.err
                               \o <<58,32>> \o message)
        ELSE IF Len(TrimSpace(git.out)) > 0
        THEN runtimeError(<<103,105,116,32,119,111,114,107,105,110,103,32,116,114,101,101,32,105,115,32,110,111,116,32,99,108,101,97,110,59,32,99,111,109,109,105,116,47,115,116,97,115,104,32,99,104,97,110,103,101,115,32,111,114,32,114,101,114,117,110,32,119,105,116,104,32,45,45,102,111,114,99,101>>)
        ELSE NoCliError

\* "/r/A/f.swift" alone, with every content and either readable or not
PruneWorlds ==
    {[root |-> Root, include |-> <<>>, exclude |-> defaultExcludedPaths, workers |-> n,
      tree |-> [dirs |-> dirs, files |-> {FileSwift}],
      content |-> content, status |-> status] :
        n \in 1..MaxWorkers,
        dirs \in {S \in SUBSET AssetUniverse : Cardinality(S) <= MaxAssets},
        content \in ContentMaps({FileSwift}),
        status \in [{FileSwift} -> {"ok", "oserr"}]}

\* "assets prune --path <root>" with or without --apply and --force, on a
\* working tree that is clean, dirty or not one git can report on; on the
\* trees without asset sets scanned by one worker for every case of --path
PruneCommands(w) ==
    {[cmd |-> "prune", pc |-> "start", apply |-> apply, force |-> force, git |-> git,
      path |-> arg.path, env |-> arg.env, root |-> Empty,
      fs0 |-> [entries |-> TreeEntries(w.root, w.tree), links |-> {}],
      fs |-> [entries |-> TreeEntries(w.root, w.tree), links |-> {}],
      targets |-> <<>>, err |-> NoCliError,
      exit |-> exitSuccess, stdout |-> <<>>, stderr |-> <<>>] :
        apply \in BOOLEAN, force \in BOOLEAN,
        git \in {GitClean, GitDirty, GitNotRepo, GitMissing},
        arg \in PathCases(w.root, w.tree.dirs = {} /\ w.workers = 1)}

InitPrune ==
    InitWith(PruneWorlds \cup {UnreadableWorld({FileSwift}, defaultExcludedPaths)}, "idle")
    /\ cli \in PruneCommands(world)

\* the command has returned e: Execute writes the envelope and exits
Failed(e) ==
    [cli EXCEPT !.pc = "done", !.err = e, !.exit = Execute(e).exit,
                !.stderr = Execute(e).stderr]

\* RunE of "assets prune" up to its call of assets.Scan
PruneBegin ==
    /\ cli.cmd = "prune"
    /\ cli.pc = "start"
    /\ LET resolved == resolveScanPath(cli.path, cli.env)
       IN  IF resolved.err # NoCliError
           THEN cli' = Failed(resolved.err) /\ pc' = pc
           ELSE IF cli.force /\ ~cli.apply
                THEN /\ cli' = Failed([usage |-> TRUE, unused |-> FALSE,
                                       message |-> <<45,45,102,111,114,99,101,32,114,101,113,117,105,114,101,115,32,45,45,97,112,112,108,121>>])
                     /\ pc' = pc
                ELSE /\ cli' = [cli EXCEPT !.pc = "scan", !.root = resolved.path]
                     /\ pc' = "start"
    /\ UNCHANGED <<world, assetCatalogs, discoveredAssets, labelAssetTypes, pending, fileCh,
                   closed, errCh, usedSet, usedMu, wpc, wpath, wins, result, err,
                   walkErr, firstErr, werr>>

\* RunE of "assets prune" from the return of assets.Scan: the targets, the
\* check of the working tree, the deletion and the rendering of the result
PruneFinish ==
    /\ cli.cmd = "prune"
    /\ cli.pc = "scan"
    /\ pc = "done"
    /\ LET pruneTargets == collectPruneTargets(result.UnusedByFile)
           gitErr == IF cli.apply /\ ~cli.force
                     THEN requireCleanGitWorkingTree(cli.git)
                     ELSE NoCliError
           deletion == IF cli.apply
                       THEN deletePruneTargets(cli.fs, pruneTargets)
                       ELSE [fs |-> cli.fs, err |-> NoCliError]
       IN  IF err # NoError THEN cli' = Failed(scanError(err))
           ELSE IF gitErr # NoCliError THEN cli' = Failed(gitErr)
           ELSE IF deletion.err # NoCliError
                THEN cli' = [Failed(deletion.err) EXCEPT !.fs = deletion.fs]
                ELSE cli' = [cli EXCEPT
                                !.pc = "done", !.fs = deletion.fs, !.targets = pruneTargets,
                                !.exit = exitSuccess,
                                !.stdout = <<[Command |-> "assets prune",
                                              Path |-> cli.root,
                                              Apply |-> cli.apply, Force |-> cli.force,
                                              UnusedCount |-> Len(result.UnusedAssets),
                                              PruneCandidateCount |-> Len(pruneTargets),
                                              Deleted |-> pruneTargets,
                                              DryRun |-> ~cli.apply]>>]
    /\ UNCHANGED <<world, pc, assetCatalogs, discoveredAssets, labelAssetTypes, pending,
                   fileCh, closed, errCh, usedSet, usedMu, wpc, wpath, wins, result, err,
                   walkErr, firstErr, werr>>

NextPrune ==
    \/ PruneBegin
    \/ Next
    \/ PruneFinish

SpecPrune == InitPrune /\ [][NextPrune]_vars

(***************************************************************************)
(* deletePruneTargets called on its own, as the tests of the cli package   *)
(* call it, on a disk with symbolic links                                  *)
(***************************************************************************)

\* the longest list of targets handed to deletePruneTargets
MaxTargets == 2

\* "/o/t.imageset": a directory outside the root
OutsideT == <<47,111,47,116,46,105,109,97,103,101,115,101,116>>

\* "/r/A/C.xcassets/l.imageset" -> "/o/t.imageset"
LinkEscape == [from |-> <<47,114,47,65,47,67,46,120,99,97,115,115,101,116,115,47,108,46,105,109,97,103,101,115,101,116>>, to |-> OutsideT]

\* "/r/A/C.xcassets/d" -> "/o"
LinkDirEscape == [from |-> <<47,114,47,65,47,67,46,120,99,97,115,115,101,116,115,47,100>>, to |-> <<47,111>>]

\* "/s" -> "/r": a second name of the root
LinkRoot == [from |-> <<47,115>>, to |-> Root]

\* the directories and files of every disk tried
DiskEntries ==
    {Root, <<47,114,47,65>>, <<47,114,47,65,47,67,46,120,99,97,115,115,101,116,115>>, AssetAXImage,
     AssetAXImage \o <<47,67,111,110,116,101,110,116,115,46,106,115,111,110>>, FileSwift,
     <<47,111>>, OutsideT, OutsideT \o <<47,67,111,110,116,101,110,116,115,46,106,115,111,110>>}

\* the paths a target list is drawn from: the asset set by its own name and
\* through "/s", the link that leaves the root, the asset set reached through
\* the linked directory, the outside directory itself, and a source file
TargetUniverse ==
    {AssetAXImage,
     <<47,115,47,65,47,67,46,120,99,97,115,115,101,116,115,47,120,46,105,109,97,103,101,115,101,116>>,
     LinkEscape.from,
     <<47,114,47,65,47,67,46,120,99,97,115,115,101,116,115,47,100,47,116,46,105,109,97,103,101,115,101,116>>,
     OutsideT,
     FileSwift}

RECURSIVE TargetLists(_)
TargetLists(n) ==
    IF n = 0 THEN {<<>>}
    ELSE TargetLists(n - 1) \cup
         {Append(l, t) : l \in {x \in TargetLists(n - 1) : Len(x) = n - 1}, t \in TargetUniverse}

\* a call of deletePruneTargets for the root "/r" or, where the link exists,
\* for its second name "/s"
DeleteCommands(w) ==
    {c \in {[cmd |-> "delete", pc |-> "start", apply |-> TRUE, force |-> TRUE,
             git |-> GitClean, path |-> root, env |-> RootPath(root).env, root |-> root,
             fs0 |-> [entries |-> DiskEntries, links |-> links],
             fs |-> [entries |-> DiskEntries, links |-> links],
             targets |-> targets, err |-> NoCliError,
             exit |-> exitSuccess, stdout |-> <<>>, stderr |-> <<>>] :
                 root \in {Root, LinkRoot.from},
                 links \in SUBSET {LinkEscape, LinkDirEscape, LinkRoot},
                 targets \in TargetLists(MaxTargets)} :
        c.root = LinkRoot.from => LinkRoot \in c.fs0.links}

\* no scan takes part in the call
IdleWorlds ==
    {[root |-> Root, include |-> <<>>, exclude |-> <<>>, workers |-> 1,
      tree |-> [dirs |-> {}, files |-> {}], content |-> <<>>, status |-> <<>>]}

InitDelete == InitWith(IdleWorlds, "idle") /\ cli \in DeleteCommands(world)

\* deletePruneTargets(paths) and its return
DeleteCall ==
    /\ cli.cmd = "delete"
    /\ cli.pc = "start"
    /\ LET deletion == deletePruneTargets(cli.fs, cli.targets)
       IN  cli' = [cli EXCEPT !.pc = "done", !.fs = deletion.fs, !.err = deletion.err]
    /\ UNCHANGED <<world, pc, assetCatalogs, discoveredAssets, labelAssetTypes, pending,
                   fileCh, closed, errCh, usedSet, usedMu, wpc, wpath, wins, result, err,
                   walkErr, firstErr, werr>>

NextDelete == DeleteCall

SpecDelete == InitDelete /\ [][NextDelete]_vars


(***************************************************************************)
(* "assets unused"                                                         *)
(***************************************************************************)

\* unusedAssetsFoundError: Error() is "unused assets detected"
unusedAssetsFoundError ==
    [usage |-> FALSE, unused |-> TRUE, message |-> <<117,110,117,115,101,100,32,97,115,115,101,116,115,32,100,101,116,101,99,116,101,100>>]

\* _, err := path.Match(p, ""); err != nil
badPattern(p) == Match(p, <<>>).err

\* validateGlobPatterns: the first pattern path.Match rejects is a usage
\* error; empty patterns and directory patterns are not looked at
RECURSIVE validateGlobPatterns(_, _)
validateGlobPatterns(patterns, flagName) ==
    IF patterns = <<>> THEN NoCliError
    ELSE LET trimmed == ToSlash(TrimSpace(Head(patterns)))
             p == TrimPrefix(TrimPrefix(trimmed, <<46, 47>>), Slash)
         IN  IF trimmed # <<>> /\ ~HasSuffix(p, Slash) /\ badPattern(p)
             THEN [usage |-> TRUE, unused |-> FALSE,
                   message |-> <<105,110,118,97,108,105,100,32,118,97,108,117,101,32,102,111,114,32,45,45>> \o flagName \o <<58,32>>
                               \o Quote(Head(patterns)) \o <<32,40,115,121,110,116,97,120,32,101,114,114,111,114,32,105,110,32,112,97,116,116,101,114,110,41>>]
             ELSE validateGlobPatterns(Tail(patterns), flagName)

\* assetNameFromPath
assetNameFromPath(assetPath) == TrimSuffix(Base(assetPath), Ext(Base(assetPath)))

\* unusedAssetDisplayNames: the names of the asset paths of one catalog, with
\* the type appended where the paths of that list have several types for
\* the name; sorted, repeats dropped
unusedAssetDisplayNames(assetPaths) ==
    LET typeOf(p) == TrimPrefix(Ext(Base(p)), Dot)
        typesByName(name) ==
            {typeOf(assetPaths[i]) :
                i \in {j \in 1..Len(assetPaths) : assetNameFromPath(assetPaths[j]) = name}}
        display(p) ==
            IF Cardinality(typesByName(assetNameFromPath(p))) > 1 /\ typeOf(p) # Empty
            THEN assetNameFromPath(p) \o Dot \o typeOf(p)
            ELSE assetNameFromPath(p)
    IN  SortedSet({display(assetPaths[i]) : i \in 1..Len(assetPaths)})

\* buildUnusedByFilePayload
buildUnusedByFilePayload(grouped) ==
    [c \in DOMAIN grouped |-> [UnusedAssets |-> unusedAssetDisplayNames(grouped[c])]]

\* flattenUnusedByFileNames
flattenUnusedByFileNames(grouped) ==
    SortedSet(UNION {Range(grouped[c].UnusedAssets) : c \in DOMAIN grouped})

\* "/r/A/C.xcassets/G/x.imageset": a second x.imageset of the catalog, in a group
AssetAGroupX == <<47,114,47,65,47,67,46,120,99,97,115,115,101,116,115,47,71,47,120,46,105,109,97,103,101,115,101,116>>

\* "/r/Pods/C.xcassets/x.imageset", "/r/Pods/p.swift": below an excluded directory
AssetPodsX == <<47,114,47,80,111,100,115,47,67,46,120,99,97,115,115,101,116,115,47,120,46,105,109,97,103,101,115,101,116>>
FilePods == <<47,114,47,80,111,100,115,47,112,46,115,119,105,102,116>>

\* "/r/unknown flag/v.swift": a source file in a directory with a space in
\* its name
FileFlag == <<47,114,47,117,110,107,110,111,119,110,32,102,108,97,103,47,118,46,115,119,105,102,116>>

\* the values of --exclude tried: the default list, and the one glob "P*"
ExcludeFlags == {defaultExcludedPaths, <<<<80,42>>>>}

\* the trees "assets unused" is run on: asset sets of two catalogs, in a group
\* and below Pods, a source file beside them, one below Pods and one in the
\* directory "unknown flag" that may be unreadable
UnusedWorlds ==
    {[root |-> Root, include |-> <<>>, exclude |-> SortStrings(excludeFlag), workers |-> n,
      tree |-> [dirs |-> dirs, files |-> {FileSwift, FilePods, FileFlag}],
      content |-> [f \in {FileSwift, FilePods, FileFlag} |->
                      IF f = FileFlag THEN <<>>
                      ELSE IF f = FileSwift THEN swiftContent ELSE podsContent],
      status |-> [f \in {FileSwift, FilePods, FileFlag} |->
                     IF f = FileFlag THEN flagStatus
                     ELSE IF f = FilePods THEN podsStatus ELSE "ok"]] :
        n \in 1..MaxWorkers,
        excludeFlag \in ExcludeFlags,
        dirs \in {S \in SUBSET {AssetAXImage, AssetBXImage, AssetAXColor, AssetAGroupX, AssetPodsX} :
                     Cardinality(S) <= MaxAssets},
        swiftContent \in {<<>>, <<Token("UIImage(named:)", Empty, NameX)>>},
        podsContent \in {<<>>, <<Token("UIColor(named:)", Empty, NameX)>>},
        podsStatus \in {"ok", "oserr"},
        flagStatus \in {"ok", "oserr", "badutf8"}}

\* "assets unused --path <root> --exclude ... --workers n", also for
\* --workers 0; on the trees without asset sets scanned by one worker for
\* every case of --path
UnusedCommands(w) ==
    {[cmd |-> "unused", pc |-> "start", path |-> arg.path, env |-> arg.env, root |-> Empty,
      include |-> <<>>, exclude |-> excludeFlag, workers |-> workers,
      err |-> NoCliError, exit |-> exitSuccess, stdout |-> <<>>, stderr |-> <<>>] :
        arg \in PathCases(w.root, w.tree.dirs = {} /\ w.workers = 1),
        excludeFlag \in {x \in ExcludeFlags : SortStrings(x) = w.exclude},
        workers \in {w.workers} \cup (IF w.workers = 1 THEN {0} ELSE {})}

InitUnused ==
    InitWith(UnusedWorlds
             \cup {UnreadableWorld({FileSwift, FilePods, FileFlag},
                                   SortStrings(defaultExcludedPaths))}, "idle")
    /\ cli \in UnusedCommands(world)

\* RunE of "assets unused" up to its call of assets.Scan
UnusedBegin ==
    /\ cli.cmd = "unused"
    /\ cli.pc = "start"
    /\ LET resolved == resolveScanPath(cli.path, cli.env)
           includeErr == validateGlobPatterns(SortStrings(cli.include), <<105,110,99,108,117,100,101>>)
           excludeErr == validateGlobPatterns(SortStrings(cli.exclude), <<101,120,99,108,117,100,101>>)
       IN  IF resolved.err # NoCliError
           THEN cli' = Failed(resolved.err) /\ pc' = pc
           ELSE IF cli.workers < 1
                THEN /\ cli' = Failed([usage |-> TRUE, unused |-> FALSE,
                                       message |-> <<105,110,118,97,108,105,100,32,118,97,108,117,101,32,102,111,114,32,45,45,119,111,114,107,101,114,115,58,32,109,117,115,116,32,98,101,32,62,61,32,49>>])
                     /\ pc' = pc
                ELSE IF includeErr # NoCliError
                     THEN cli' = Failed(includeErr) /\ pc' = pc
                     ELSE IF excludeErr # NoCliError
                          THEN cli' = Failed(excludeErr) /\ pc' = pc
                          ELSE /\ cli' = [cli EXCEPT !.pc = "scan", !.root = resolved.path]
                               /\ pc' = "start"
    /\ UNCHANGED <<world, assetCatalogs, discoveredAssets, labelAssetTypes, pending, fileCh,
                   closed, errCh, usedSet, usedMu, wpc, wpath, wins, result, err,
                   walkErr, firstErr, werr>>

\* RunE of "assets unused" from the return of assets.Scan: the counts, the
\* rendering of the result, and the error that makes Execute exit with 3
UnusedFinish ==
    /\ cli.cmd = "unused"
    /\ cli.pc = "scan"
    /\ pc = "done"
    /\ LET pruneCandidates == collectPruneTargets(result.UnusedByFile)
           unusedByFile == buildUnusedByFilePayload(result.UnusedByFile)
           unusedSummary ==
               IF Len(result.UnusedAssets) = 0 /\ DOMAIN unusedByFile # {}
               THEN flattenUnusedByFileNames(unusedByFile)
               ELSE result.UnusedAssets
           rendered == <<[Command |-> "assets unused",
                          Path |-> cli.root,
                          UnusedCount |-> Len(unusedSummary),
                          PruneCandidateCount |-> Len(pruneCandidates),
                          Unused |-> unusedSummary,
                          UnusedByFile |-> unusedByFile]>>
       IN  IF err # NoError THEN cli' = Failed(scanError(err))
           ELSE IF Len(unusedSummary) > 0
                THEN cli' = [Failed(unusedAssetsFoundError) EXCEPT !.stdout = rendered]
                ELSE cli' = [cli EXCEPT !.pc = "done", !.exit = exitSuccess,
                                        !.stdout = rendered]
    /\ UNCHANGED <<world, pc, assetCatalogs, discoveredAssets, labelAssetTypes, pending,
                   fileCh, closed, errCh, usedSet, usedMu, wpc, wpath, wins, result, err,
                   walkErr, firstErr, werr>>

NextUnused ==
    \/ UnusedBegin
    \/ Next
    \/ UnusedFinish

SpecUnused == InitUnused /\ [][NextUnused]_vars

\* the values of --include and --exclude given to "assets scan": none and the
\* default, patterns with a character class and an escape, and patterns
\* path.Match rejects
ScanIncludeFlags == {<<>>, <<<<65,47,91,97,45,102,93,46,115,119,105,102,116>>>>, <<<<91,97,45,93>>>>}
ScanExcludeFlags ==
    {defaultExcludedPaths, <<<<92,91>>>>, <<<<91>>>>, <<<<97,92>>>>, <<<<80,42>>, <<91,93>>>>}

\* the trees "assets scan" is run on: up to two asset sets of one catalog and
\* one source file that may be unreadable
ScanWorlds ==
    {[root |-> Root, include |-> SortStrings(includeFlag),
      exclude |-> SortStrings(excludeFlag), workers |-> n,
      tree |-> [dirs |-> dirs, files |-> {FileSwift}],
      content |-> [f \in {FileSwift} |-> content],
      status |-> [f \in {FileSwift} |-> status]] :
        n \in 1..MaxWorkers,
        includeFlag \in ScanIncludeFlags,
        excludeFlag \in ScanExcludeFlags,
        dirs \in SUBSET {AssetAXImage, AssetAXColor},
        content \in {<<>>, <<Token("UIImage(named:)", Empty, NameX)>>},
        status \in {"ok", "oserr"}}

\* "assets scan --path ... --include ... --exclude ... --workers n", also for
\* --workers 0
ScanCommands(w) ==
    {[cmd |-> "scan", pc |-> "start", path |-> arg.path, env |-> arg.env, root |-> Empty,
      include |-> includeFlag, exclude |-> excludeFlag, workers |-> workers,
      err |-> NoCliError, exit |-> exitSuccess, stdout |-> <<>>, stderr |-> <<>>] :
        arg \in PathCases(w.root, w.tree.dirs = {} /\ w.workers = 1),
        includeFlag \in {x \in ScanIncludeFlags : SortStrings(x) = w.include},
        excludeFlag \in {x \in ScanExcludeFlags : SortStrings(x) = w.exclude},
        workers \in {w.workers} \cup (IF w.workers = 1 THEN {0} ELSE {})}

InitScan ==
    InitWith(ScanWorlds
             \cup {UnreadableWorld({FileSwift}, SortStrings(defaultExcludedPaths))}, "idle")
    /\ cli \in ScanCommands(world)

\* RunE of "assets scan" up to its call of assets.Scan
ScanCommandBegin ==
    /\ cli.cmd = "scan"
    /\ cli.pc = "start"
    /\ LET resolved == resolveScanPath(cli.path, cli.env)
           includeErr == validateGlobPatterns(SortStrings(cli.include), <<105,110,99,108,117,100,101>>)
           excludeErr == validateGlobPatterns(SortStrings(cli.exclude), <<101,120,99,108,117,100,101>>)
       IN  IF resolved.err # NoCliError
           THEN cli' = Failed(resolved.err) /\ pc' = pc
           ELSE IF cli.workers < 1
                THEN /\ cli' = Failed([usage |-> TRUE, unused |-> FALSE,
                                       message |-> <<105,110,118,97,108,105,100,32,118,97,108,117,101,32,102,111,114,32,45,45,119,111,114,107,101,114,115,58,32,109,117,115,116,32,98,101,32,62,61,32,49>>])
                     /\ pc' = pc
                ELSE IF includeErr # NoCliError
                     THEN cli' = Failed(includeErr) /\ pc' = pc
                     ELSE IF excludeErr # NoCliError
                          THEN cli' = Failed(excludeErr) /\ pc' = pc
                          ELSE /\ cli' = [cli EXCEPT !.pc = "scan", !.root = resolved.path]
                               /\ pc' = "start"
    /\ UNCHANGED <<world, assetCatalogs, discoveredAssets, labelAssetTypes, pending, fileCh,
                   closed, errCh, usedSet, usedMu, wpc, wpath, wins, result, err,
                   walkErr, firstErr, werr>>

\* RunE of "assets scan" from the return of assets.Scan: the counts of the
\* summary and the rendering of the result
ScanCommandFinish ==
    /\ cli.cmd = "scan"
    /\ cli.pc = "scan"
    /\ pc = "done"
    /\ LET rendered == <<[Command |-> "assets scan",
                          Path |-> cli.root,
                          Include |-> SortStrings(cli.include),
                          Exclude |-> SortStrings(cli.exclude),
                          Workers |-> cli.workers,
                          Summary |-> [AssetCatalogs |-> result.AssetCatalogs,
                                       AssetSets |-> Len(result.AssetNames),
                                       UsedAssets |-> Len(result.UsedAssets),
                                       UnusedAssets |-> Len(result.UnusedAssets)]]>>
       IN  IF err # NoError THEN cli' = Failed(scanError(err))
           ELSE cli' = [cli EXCEPT !.pc = "done", !.exit = exitSuccess, !.stdout = rendered]
    /\ UNCHANGED <<world, pc, assetCatalogs, discoveredAssets, labelAssetTypes, pending,
                   fileCh, closed, errCh, usedSet, usedMu, wpc, wpath, wins, result, err,
                   walkErr, firstErr, werr>>

\* each command on its own trees
InitCommands == InitScan \/ InitUnused \/ InitPrune

NextCommands ==
    \/ ScanCommandBegin
    \/ UnusedBegin
    \/ PruneBegin
    \/ Next
    \/ ScanCommandFinish
    \/ UnusedFinish
    \/ PruneFinish

SpecCommands == InitCommands /\ [][NextCommands]_vars

(***************************************************************************)
(* Trees with parameter declarations and labelled call sites               *)
(***************************************************************************)

\* "/r/B/d.swift": a second .swift file, later in the walk than "/r/A/f.swift"
FileDecl == <<47,114,47,66,47,100,46,115,119,105,102,116>>

\* the labels "icon" and "tint"
LabelIcon == <<105,99,111,110>>
LabelTint == <<116,105,110,116>>

\* what the two .swift files may hold: nothing, a declaration of a parameter
\* "icon: ImageResource", "icon: ColorResource", "tint: ImageResource" or
\* "_ icon: ImageResource", the call site "icon: .x", or a declaration
\* followed by the call site
LabelContentChoices ==
    {<<>>,
     <<Token("param: ImageResource", LabelIcon, Empty)>>,
     <<Token("param: ColorResource", LabelIcon, Empty)>>,
     <<Token("param: ImageResource", LabelTint, Empty)>>,
     <<Token("param: ImageResource", <<95>>, Empty)>>,
     <<Token("label: .ident", LabelIcon, NameX)>>,
     <<Token("param: ImageResource", LabelIcon, Empty), Token("label: .ident", LabelIcon, NameX)>>}

\* the trees that exercise the label prepass: x.imageset and x.colorset in one
\* catalog, two .swift files, the directory of the second excluded or not
LabelWorlds ==
    {[root |-> Root, include |-> <<>>, exclude |-> exclude, workers |-> n,
      tree |-> [dirs |-> dirs, files |-> {FileSwift, FileDecl}],
      content |-> content,
      status |-> [f \in {FileSwift, FileDecl} |-> "ok"]] :
        n \in 1..MaxWorkers,
        exclude \in {<<>>, <<<<66,47>>>>},
        dirs \in SUBSET {AssetAXImage, AssetAXColor},
        content \in [{FileSwift, FileDecl} -> LabelContentChoices]}

InitLabels ==
    InitWith(LabelWorlds \cup {UnreadableWorld({FileSwift, FileDecl}, <<>>)}, "start")
    /\ cli \in NoCommand(world)

SpecLabels == InitLabels /\ [][Next]_vars

(***************************************************************************)
(* matchesAny called on its own, as the tests of the assets package call it *)
(***************************************************************************)

\* "Sources/**/*.swift"
GlobstarPattern == <<83,111,117,114,99,101,115,47,42,42,47,42,46,115,119,105,102,116>>

\* "ExternalLib/"
DirectoryPattern == <<69,120,116,101,114,110,97,108,76,105,98,47>>

\* the paths handed to matchesAny
MatchPaths ==
    {<<69,120,116,101,114,110,97,108,76,105,98>>, <<69,120,116,101,114,110,97,108,76,105,98,47,65,115,115,101,116,115,46,120,99,97,115,115,101,116,115,47,105,99,111,110,46,105,109,97,103,101,115,101,116>>,
     <<77,121,69,120,116,101,114,110,97,108,76,105,98,47,65,115,115,101,116,115,46,120,99,97,115,115,101,116,115,47,105,99,111,110,46,105,109,97,103,101,115,101,116>>, <<77,121,69,120,116,101,114,110,97,108,76,105,98,47,102,111,111>>,
     <<46,47,69,120,116,101,114,110,97,108,76,105,98,47,97>>, <<47,69,120,116,101,114,110,97,108,76,105,98>>, <<69,120,116,101,114,110,97,108,76,105,98,88>>, <<97,47,69,120,116,101,114,110,97,108,76,105,98,47,98>>,
     <<69,120,116,101,114,110,97,108,76,105,98,92,97>>, <<46>>, Empty,
     <<65,112,112,47,77,97,105,110,46,115,119,105,102,116>>, <<80,111,100,115,47,97>>,
     <<83,111,117,114,99,101,115,47,86,105,101,119,46,115,119,105,102,116>>, <<83,111,117,114,99,101,115,47,65,112,112,47,86,105,101,119,46,115,119,105,102,116>>, <<83,111,117,114,99,101,115,47,65,112,112,47,72,111,109,101,47,86,105,101,119,46,115,119,105,102,116>>,
     <<83,111,117,114,99,101,115,47,65,112,112,47,70,101,97,116,117,114,101,115,47,72,111,109,101,47,86,105,101,119,46,115,119,105,102,116>>, <<83,111,117,114,99,101,115,47,65,112,112,47,86,105,101,119,46,109>>}

\* the pattern lists handed to matchesAny
MatchPatterns ==
    {<<>>, <<DirectoryPattern>>, <<<<46,47,69,120,116,101,114,110,97,108,76,105,98,47>>>>, <<<<32,69,120,116,101,114,110,97,108,76,105,98,47,32>>>>,
     <<<<47,69,120,116,101,114,110,97,108,76,105,98,47>>>>, <<<<80,111,100,115,47>>, DirectoryPattern>>, <<Empty, <<80,111,100,115,47>>>>,
     <<<<65,112,112,47,42,46,115,119,105,102,116>>>>, <<GlobstarPattern>>}

\* one call matchesAny(candidatePath, patterns)
MatchCommands(w) ==
    {[cmd |-> "matchesAny", pc |-> "start", candidatePath |-> candidatePath,
      patterns |-> patterns, matched |-> FALSE] :
        candidatePath \in MatchPaths, patterns \in MatchPatterns}

InitMatch == InitWith(IdleWorlds, "idle") /\ cli \in MatchCommands(world)

\* matchesAny(candidatePath, patterns) and its return
MatchCall ==
    /\ cli.cmd = "matchesAny"
    /\ cli.pc = "start"
    /\ cli' = [cli EXCEPT !.pc = "done",
                          !.matched = matchesAny(cli.candidatePath, cli.patterns)]
    /\ UNCHANGED <<world, pc, assetCatalogs, discoveredAssets, labelAssetTypes, pending,
                   fileCh, closed, errCh, usedSet, usedMu, wpc, wpath, wins, result, err,
                   walkErr, firstErr, werr>>

NextMatch == MatchCall

SpecMatch == InitMatch /\ [][NextMatch]_vars
(***************************************************************************)
(* The properties checked                                                  *)
(***************************************************************************)

\* a list in strictly increasing byte order: sorted and without repeats
IsStrictlySorted(list) == \A i \in 1..(Len(list) - 1) : StrLess(list[i], list[i + 1])

\* the eligible source files of a world that cannot be read
ReadFailures(w) == {f \in Range(eligibleSourceFiles(w)) : w.status[f] # "ok"}

\* the file a worker is busy with holds exactly one construct
SingleConstruct(w) == Len(world.content[wpath[w]]) = 1

\* C1: in a successful Result no summary identifier is both in UsedAssets and
\* in UnusedAssets, also when asset sets of several catalogs share a name
C1_UsedUnusedDisjoint ==
    (pc = "done" /\ err = NoError) =>
        Range(result.UsedAssets) \cap Range(result.UnusedAssets) = {}

\* C2: Scan returns for every worker count, every number of eligible files
\* (more than the 2N paths the queue holds included) and every set of files
\* whose read fails
C2_ScanTerminates == <>(pc = "done")

\* Scan has returned an error after more files than the queue holds, several
\* of them unreadable
C2_Witness ==
    /\ pc = "done"
    /\ err # NoError
    /\ Cardinality(world.tree.files) > 2 * world.workers
    /\ Cardinality(ReadFailures(world)) >= 2
    /\ \A w \in Workers : wpc[w] = "exit"

\* C3: when an eligible source file cannot be read or is not valid UTF-8,
\* Scan returns an error that names such a file, and the empty Result
C3_ReadFailureFailsScan ==
    (pc = "done" /\ ReadFailures(world) # {}) =>
        /\ err # NoError
        /\ err.path \in ReadFailures(world)
        /\ err.kind = (IF world.status[err.path] = "badutf8"
                       THEN "invalid UTF-8 encoding" ELSE "open")
        /\ result = EmptyResult

\* Scan has failed on a file of invalid UTF-8 after the references of
\* another file had been marked
C3_Witness ==
    /\ pc = "done"
    /\ err.kind = "invalid UTF-8 encoding"
    /\ usedSet # {}
    /\ result = EmptyResult

\* C4 as stated: "assets prune" changes the disk only with --apply and then
\* only with --force or a clean working tree; with --apply and without
\* --force on a dirty tree it deletes nothing, exits 1 with a runtime_error
\* and writes nothing to stdout; --force without --apply exits 2 with a
\* usage_error and deletes nothing, whatever the --path
C4_PruneDeletesOnlyWhenAllowed ==
    cli.cmd = "prune" =>
        /\ cli.fs # cli.fs0 => cli.apply /\ (cli.force \/ cli.git = GitClean)
        /\ (cli.pc = "done" /\ cli.apply /\ ~cli.force /\ cli.git = GitDirty) =>
               /\ cli.fs = cli.fs0
               /\ cli.exit = exitFailure
               /\ cli.stdout = <<>>
               /\ Len(cli.stderr) = 1 /\ cli.stderr[1].code = "runtime_error"
        /\ (cli.pc = "done" /\ cli.force /\ ~cli.apply) =>
               /\ cli.fs = cli.fs0
               /\ cli.exit = exitUsage
               /\ cli.stdout = <<>>
               /\ Len(cli.stderr) = 1 /\ cli.stderr[1].code = "usage_error"

\* C4 amended: "assets prune" changes the disk only with --apply and then
\* only with --force or a clean working tree; with --apply and without
\* --force on a dirty tree it deletes nothing, exits 1 with a runtime_error
\* and writes nothing to stdout; --force without --apply deletes nothing and
\* writes nothing to stdout, and it exits 2 with a usage_error when the
\* --path resolves to a directory: the path is resolved before the flags are
\* looked at, so otherwise the command returns the error of the path, which
\* is no usage error, and does not exit 0
C4_ForceNeedsApplyOnResolvedPath ==
    cli.cmd = "prune" =>
        /\ cli.fs # cli.fs0 => cli.apply /\ (cli.force \/ cli.git = GitClean)
        /\ (cli.pc = "done" /\ cli.apply /\ ~cli.force /\ cli.git = GitDirty) =>
               /\ cli.fs = cli.fs0
               /\ cli.exit = exitFailure
               /\ cli.stdout = <<>>
               /\ Len(cli.stderr) = 1 /\ cli.stderr[1].code = "runtime_error"
        /\ (cli.pc = "done" /\ cli.force /\ ~cli.apply) =>
               /\ cli.fs = cli.fs0
               /\ cli.stdout = <<>>
               /\ Len(cli.stderr) = 1
               /\ IF resolveScanPath(cli.path, cli.env).err = NoCliError
                  THEN cli.exit = exitUsage /\ cli.stderr[1].code = "usage_error"
                  ELSE /\ cli.err = resolveScanPath(cli.path, cli.env).err
                       /\ ~cli.err.usage
                       /\ cli.exit # exitSuccess

\* the scan found asset sets to prune, and --apply without --force on a
\* dirty tree has failed
C4_Witness ==
    /\ cli.cmd = "prune" /\ cli.pc = "done"
    /\ cli.apply /\ ~cli.force /\ cli.git = GitDirty
    /\ pc = "done" /\ err = NoError
    /\ collectPruneTargets(result.UnusedByFile) # <<>>
    /\ cli.exit = exitFailure
    /\ cli.fs = cli.fs0

\* C5: after a successful "assets prune --apply" every asset set the scan
\* marked used is still on disk, and every directory removed is an unused
\* asset set with one of the three extensions
C5_PruneKeepsUsedAssets ==
    (cli.cmd = "prune" /\ cli.pc = "done" /\ cli.apply /\ cli.exit = exitSuccess) =>
        /\ \A a \in usedSet : a \in cli.fs.entries
        /\ \A d \in (cli.fs0.entries \ cli.fs.entries) \cap TreeDirs(world.root, world.tree) :
               /\ isPrunableAssetSetPath(d)
               /\ d \notin usedSet
               /\ \E i \in 1..Len(discoveredAssets) : discoveredAssets[i].AssetPath = d

\* filepath.EvalSymlinks: the path with every symbolic link followed, the
\* last component included
EvalSymlinks(fs, p) ==
    LET q == resolveParents(fs, p, Cardinality(fs.links))
    IN  IF \E l \in fs.links : l.from = q
        THEN (CHOOSE l \in fs.links : l.from = q).to
        ELSE q

\* the resolved path is the resolved root or lies below it
InsideRoot(fs, root, p) ==
    \/ EvalSymlinks(fs, p) = EvalSymlinks(fs, root)
    \/ HasPrefix(EvalSymlinks(fs, p), EvalSymlinks(fs, root) \o Slash)

\* C6: the deletion step resolves symbolic links: a target that resolves to
\* a place outside the resolved root makes it fail with an "outside root"
\* error and leaves the link and what it points to in place, while targets
\* named through a root that is itself a symbolic link are deleted
C6_DeleteRefusesOutsideRoot ==
    (cli.cmd = "delete" /\ cli.pc = "done") =>
        LET escaping == {i \in 1..Len(cli.targets) :
                            /\ isPrunableAssetSetPath(cli.targets[i])
                            /\ ~InsideRoot(cli.fs0, cli.root, cli.targets[i])}
        IN  /\ escaping # {} => Contains(cli.err.message, <<111,117,116,115,105,100,101,32,114,111,111,116>>)
            /\ \A i \in escaping :
                   /\ \A l \in cli.fs0.links :
                          l.from = resolveParents(cli.fs0, cli.targets[i], Cardinality(cli.fs0.links))
                              => l \in cli.fs.links
                   /\ \A e \in cli.fs0.entries :
                          (e = EvalSymlinks(cli.fs0, cli.targets[i])
                             \/ HasPrefix(e, EvalSymlinks(cli.fs0, cli.targets[i]) \o Slash))
                              => e \in cli.fs.entries
            /\ (/\ cli.root = LinkRoot.from
                /\ \A i \in 1..Len(cli.targets) :
                       /\ isPrunableAssetSetPath(cli.targets[i])
                       /\ InsideRoot(cli.fs0, cli.root, cli.targets[i]))
                   => /\ cli.err = NoCliError
                      /\ \A i \in 1..Len(cli.targets) :
                             EvalSymlinks(cli.fs0, cli.targets[i]) \notin cli.fs.entries

\* what Scan returns for a world, computed without workers: the empty Result
\* when a file cannot be read, else the inventory with the references of
\* every eligible file resolved
ExpectedResult(w) ==
    LET inv == collectAssets(w.root, w.tree, w.include, w.exclude)
        lab == collectSwiftResourceArgumentLabelAssetTypes(w)
        files == Range(eligibleSourceFiles(w))
        used == UNION {UNION Range(fileInsertions(inv.discoveredAssets, lab.labels,
                                                 f, w.content[f], {})) : f \in files}
    IN  IF ReadFailures(w) # {} THEN EmptyResult
        ELSE [AssetCatalogs |-> inv.assetCatalogs,
              AssetNames |-> SortedSet(scanAssetNames(inv.discoveredAssets)),
              UsedAssets |-> SortedSet(scanUsedNames(inv.discoveredAssets, used)),
              UnusedAssets |-> SortedSet(scanUnusedNames(inv.discoveredAssets, used)),
              UnusedByFile |-> scanUnusedByFile(inv.discoveredAssets, used)]

\* C7: the Result of a scan is the same for every worker count and every
\* interleaving of the workers, and AssetNames, UsedAssets, UnusedAssets and
\* each list of UnusedByFile are sorted by byte order without repeats
C7_ResultIndependentOfWorkers ==
    pc = "done" =>
        /\ result = ExpectedResult(world)
        /\ IsStrictlySorted(result.AssetNames)
        /\ IsStrictlySorted(result.UsedAssets)
        /\ IsStrictlySorted(result.UnusedAssets)
        /\ \A c \in DOMAIN result.UnusedByFile : IsStrictlySorted(result.UnusedByFile[c])

\* two workers have scanned two files that each mark an asset set, and the
\* Result lists several names
C7_Witness ==
    /\ pc = "done"
    /\ err = NoError
    /\ world.workers = 2
    /\ \A f \in world.tree.files :
           fileInsertions(discoveredAssets, labelAssetTypes, f, world.content[f], {}) # <<>>
    /\ Len(result.AssetNames) >= 2
    /\ Len(result.UsedAssets) >= 1

\* the asset type a construct of source code names, by the form of the
\* construct
TypeOfForm(form) ==
    IF form \in {"UIImage(named:)", "NSImage(named:)", "Image(named:)", "Image(\"\")",
                 "[UIImage imageNamed:]", "[UIImage imageNamed:var]"}
    THEN Imageset
    ELSE IF form \in {"UIColor(named:)", "NSColor(named:)", "Color(named:)", "Color(\"\")",
                      "[UIColor colorNamed:]"}
         THEN Colorset
         ELSE IF form \in {"NSDataAsset(name:)", "DataAsset(name:)",
                           "[NSDataAsset initWithName:]"}
              THEN Dataset
              ELSE Empty

\* worker w has read a source file whose one construct names X with a type
TypedReferenceRead(w) ==
    /\ wpc[w] \in {"lock", "insert"}
    /\ ToLower(Ext(wpath[w])) \notin {StoryboardExt, XibExt}
    /\ SingleConstruct(w)
    /\ TypeOfForm(world.content[wpath[w]][1].form) # Empty

\* C8: a reference that carries an asset type marks only asset sets of that
\* name and that type; an asset set of the same name and another type is
\* not marked by it
C8_TypedReferenceMarksItsTypeOnly ==
    \A w \in Workers :
        TypedReferenceRead(w) =>
            \A i \in 1..Len(wins[w]) : \A p \in wins[w][i] :
                LET construct == world.content[wpath[w]][1]
                IN  Base(p) = construct.arg \o Dot \o TypeOfForm(construct.form)

\* a worker is about to mark x.imageset for UIImage(named: "x") while
\* x.colorset is in the inventory too
C8_Witness ==
    \E w \in Workers :
        /\ TypedReferenceRead(w)
        /\ world.content[wpath[w]][1].form = "UIImage(named:)"
        /\ {AssetAXImage, AssetAXColor} \subseteq
               {discoveredAssets[i].AssetPath : i \in 1..Len(discoveredAssets)}
        /\ Head(wins[w]) = {AssetAXImage}

\* C9: <color ... name="X"> in a storyboard or xib marks the colorset X
\* only: with x.imageset and x.colorset in one catalog the Result has
\* UsedAssets = [x.colorset] and UnusedAssets = [x.imageset]
C9_IBColorMarksColorsetOnly ==
    /\ \A w \in Workers :
           (/\ wpc[w] \in {"lock", "insert"}
            /\ ToLower(Ext(wpath[w])) \in {StoryboardExt, XibExt}
            /\ world.content[wpath[w]] = <<Token("<color name=", Empty, NameX)>>)
               => \A i \in 1..Len(wins[w]) : \A p \in wins[w][i] : Ext(p) = ColorsetExt
    /\ (/\ pc = "done" /\ err = NoError
        /\ world.tree.dirs = {AssetAXImage, AssetAXColor}
        /\ world.content[FileSwift] = <<>>
        /\ world.content[FileStoryboard] = <<Token("<color name=", Empty, NameX)>>)
           => /\ result.UsedAssets = <<<<120,46,99,111,108,111,114,115,101,116>>>>
              /\ result.UnusedAssets = <<<<120,46,105,109,97,103,101,115,101,116>>>>

\* the number of leading path segments two paths share
SharedLeadingSegments(a, b) ==
    LET aParts == SplitSlash(a)
        bParts == SplitSlash(b)
        agree == {k \in 0..Len(aParts) :
                     k <= Len(bParts) /\ \A i \in 1..k : aParts[i] = bParts[i]}
    IN  CHOOSE k \in agree : \A j \in agree : j <= k

\* the candidates of the one reference in the file worker w has read
CandidatesRead(w) ==
    LET construct == world.content[wpath[w]][1]
        all == IF ToLower(Ext(wpath[w])) \in {StoryboardExt, XibExt}
               THEN assetPathsByName(discoveredAssets, construct.arg)
               ELSE IF TypeOfForm(construct.form) # Empty
                    THEN assetPathsByTypeAndName(discoveredAssets, construct.arg,
                                                 TypeOfForm(construct.form))
                    ELSE swiftResourceCandidates(discoveredAssets, construct.arg)
    IN  Range(all)

\* worker w has read a file whose one reference has several candidates
SeveralCandidatesRead(w) ==
    /\ wpc[w] \in {"lock", "insert"}
    /\ SingleConstruct(w)
    /\ Len(wins[w]) = 1
    /\ Cardinality(CandidatesRead(w)) > 1

\* C10: of several candidates exactly those are marked whose catalog path
\* shares the most leading segments with the path of the source file; the
\* candidates that tie for the most are all marked
C10_ClosestCatalogWins ==
    \A w \in Workers :
        SeveralCandidatesRead(w) =>
            Head(wins[w]) =
                {c.AssetPath : c \in
                    {c \in CandidatesRead(w) :
                        \A d \in CandidatesRead(w) :
                            SharedLeadingSegments(wpath[w], d.CatalogPath)
                                <= SharedLeadingSegments(wpath[w], c.CatalogPath)}}

\* a worker is about to mark one of two candidates and not the other
C10_Witness ==
    \E w \in Workers :
        /\ SeveralCandidatesRead(w)
        /\ Head(wins[w]) # {c.AssetPath : c \in CandidatesRead(w)}


(***************************************************************************)
(* swiftResourceCandidatesForAsset called on its own, as the tests of the  *)
(* package call it                                                         *)
(***************************************************************************)

\* the asset names handed to swiftResourceCandidatesForAsset: names with one
\* and several tokens, with multi-byte letters, with leading digits, with the
\* Image / Color / Data suffixes, and one name that is not valid UTF-8
CandidateNames ==
    {<<112,114,105,109,97,114,121,95,195,164,112,102,101,108>>, <<112,114,105,109,97,114,121,95,97,112,102,101,108>>, <<112,114,105,109,97,114,121,195,132,112,102,101,108>>, <<195,164,112,102,101,108>>, <<195,132,112,102,101,108,95,195,182,108>>,
     <<120>>, <<97,95,98>>, <<97,45,98,32,99>>, <<65,95,98>>, <<97,95,95,98>>, <<95>>, Empty,
     <<49,97>>, <<49,195,164>>, <<49,95,195,164>>, <<97,95,49,98>>, <<195,169,95,195,169>>,
     <<105,99,111,110,73,109,97,103,101>>, <<116,105,110,116,67,111,108,111,114>>, <<98,108,111,98,68,97,116,97>>, <<73,109,97,103,101>>, <<105,99,111,110,95,73,109,97,103,101>>,
     <<97,95,255>>}

\* one call swiftResourceCandidatesForAsset(assetName, assetType)
CandidateCommands(w) ==
    {[cmd |-> "candidates", pc |-> "start", assetName |-> assetName,
      assetType |-> assetType, candidates |-> <<>>] :
        assetName \in CandidateNames, assetType \in {Imageset, Colorset, Dataset}}

InitCandidates == InitWith(IdleWorlds, "idle") /\ cli \in CandidateCommands(world)

\* swiftResourceCandidatesForAsset(assetName, assetType) and its return
CandidatesCall ==
    /\ cli.cmd = "candidates"
    /\ cli.pc = "start"
    /\ cli' = [cli EXCEPT !.pc = "done",
                          !.candidates = swiftResourceCandidatesForAsset(cli.assetName,
                                                                         cli.assetType)]
    /\ UNCHANGED <<world, pc, assetCatalogs, discoveredAssets, labelAssetTypes, pending,
                   fileCh, closed, errCh, usedSet, usedMu, wpc, wpath, wins, result, err,
                   walkErr, firstErr, werr>>

NextCandidates == CandidatesCall

SpecCandidates == InitCandidates /\ [][NextCandidates]_vars

(***************************************************************************)
(* Scan on a tree that changes while it is scanned: a directory that the   *)
(* inventory walk and the label prepass could read cannot be read any more *)
(* when the walk of collectUsedAssets reaches it                           *)
(***************************************************************************)

\* "/r/a/p.m", "/r/a/q.m", "/r/b/s.m", "/r/c/t.m", "/r/c/u.m": more files
\* than the queue of two workers holds
ErrorFiles == {<<47,114,47,97,47,112,46,109>>, <<47,114,47,97,47,113,46,109>>, <<47,114,47,98,47,115,46,109>>, <<47,114,47,99,47,116,46,109>>, <<47,114,47,99,47,117,46,109>>}

\* the trees that exercise the error paths: one or two workers, any subset
\* of the files unreadable, and at most one directory that may become
\* unreadable during the scan
ErrorWorlds ==
    {[root |-> Root, include |-> <<>>, exclude |-> <<>>, workers |-> n,
      tree |-> [dirs |-> {AssetAXImage}, files |-> ErrorFiles],
      content |-> [f \in ErrorFiles |-> <<Token("[UIImage imageNamed:]", Empty, NameX)>>],
      status |-> status, volatile |-> volatile] :
        n \in 1..2,
        status \in [ErrorFiles -> {"ok", "oserr"}],
        volatile \in {{}, {<<47,114,47,98>>}, {<<47,114,47,99>>}}}

InitErrors == InitWith(ErrorWorlds, "start") /\ cli \in NoCommand(world)

\* the walk function of collectUsedAssets is called with err != nil for the
\* directory d, which WalkDir could not read: it returns the error and
\* WalkDir returns it as walkErr; the paths before d have been sent, the
\* paths after d are not visited
WalkerFail(d) ==
    /\ pc = "walk"
    /\ walkErr = NoError
    /\ d \in TreeDirs(world.root, world.tree) \ sourceWalkSkipped(world)
    /\ Range(pending) = {p \in Range(eligibleSourceFiles(world)) : WalkLess(d, p)}
    /\ walkErr' = [kind |-> "open", path |-> d]
    /\ firstErr' = IF firstErr = NoError THEN walkErr' ELSE firstErr
    /\ pending' = <<>>
    /\ UNCHANGED <<world, pc, assetCatalogs, discoveredAssets, labelAssetTypes, fileCh,
                   closed, errCh, usedSet, usedMu, wpc, wpath, wins, result, err, cli, werr>>

NextErrors ==
    \/ Next
    \/ \E d \in world.volatile : WalkerFail(d)

SpecErrors == InitErrors /\ [][NextErrors]_vars

(***************************************************************************)
(* Scan on .swift files that return enum members from functions            *)
(***************************************************************************)

\* a declaration head with its return type, a brace, return .ident
Head_ImageResource == Token("func -> ImageResource", Empty, Empty)
Head_Other == Token("func -> Other", Empty, Empty)
Open == Token("{", Empty, Empty)
Close == Token("}", Empty, Empty)
Return(ident) == Token("return .ident", Empty, ident)

\* the layouts of one .swift file: a resource-typed function with its body,
\* a function of another type, a resource-typed declaration without a body
\* (a protocol requirement) alone and followed by a function of another
\* type, nested and unbalanced braces, a computed property
ReturnLayouts ==
    {<<>>,
     <<Head_ImageResource, Open, Return(NameX), Close>>,
     <<Head_Other, Open, Return(NameX), Close>>,
     <<Head_ImageResource>>,
     <<Head_ImageResource, Head_Other, Open, Return(NameX), Close>>,
     <<Head_ImageResource, Open, Close, Head_Other, Open, Return(NameX), Close>>,
     <<Head_Other, Open, Return(NameX), Close, Head_ImageResource, Open, Return(NameY), Close>>,
     <<Head_ImageResource, Open, Open, Return(NameX), Close, Close>>,
     <<Head_ImageResource, Open, Return(NameX)>>,
     <<Token("func -> ColorResource", Empty, Empty), Open, Return(NameX), Close>>,
     <<Token("var: ImageResource {", Empty, Empty), Return(NameX), Close>>,
     <<Head_Other, Open, Return(NameX), Close, Head_ImageResource>>}

\* x.imageset in one or two catalogs, one .swift file with one of the layouts
ReturnWorlds ==
    {[root |-> Root, include |-> <<>>, exclude |-> <<>>, workers |-> n,
      tree |-> [dirs |-> dirs, files |-> {FileSwift}],
      content |-> [f \in {FileSwift} |-> layout],
      status |-> [f \in {FileSwift} |-> "ok"]] :
        n \in 1..2,
        dirs \in {{AssetAXImage}, {AssetAXImage, AssetAXColor}},
        layout \in ReturnLayouts}

InitReturns ==
    InitWith(ReturnWorlds \cup {UnreadableWorld({FileSwift}, <<>>)}, "start")
    /\ cli \in NoCommand(world)

SpecReturns == InitReturns /\ [][Next]_vars

(***************************************************************************)
(* Scan on trees with nested catalogs and with include patterns            *)
(***************************************************************************)

\* "/r/Outer.xcassets/Inner.xcassets/x.imageset"
AssetInnerX == <<47,114,47,79,117,116,101,114,46,120,99,97,115,115,101,116,115,47,73,110,110,101,114,46,120,99,97,115,115,101,116,115,47,120,46,105,109,97,103,101,115,101,116>>

\* the values of Options.Include: none, source files only, a catalog
\* directory only, an asset-set directory only, a catalog and what is
\* directly in it, a directory subtree
IncludeLists ==
    {<<>>, <<<<65,47,42,46,115,119,105,102,116>>>>, <<<<65,47,67,46,120,99,97,115,115,101,116,115>>>>, <<<<65,47,67,46,120,99,97,115,115,101,116,115,47,120,46,105,109,97,103,101,115,101,116>>>>,
     <<<<65,47,67,46,120,99,97,115,115,101,116,115>>, <<65,47,67,46,120,99,97,115,115,101,116,115,47,42>>>>, <<<<65,47>>>>}

\* the trees that exercise the inventory: asset sets in a catalog and in a
\* catalog nested in another, one .swift file, and an include list
InventoryWorlds ==
    {[root |-> Root, include |-> include, exclude |-> <<>>, workers |-> n,
      tree |-> [dirs |-> dirs, files |-> {FileSwift}],
      content |-> [f \in {FileSwift} |-> content],
      status |-> [f \in {FileSwift} |-> "ok"]] :
        n \in 1..2,
        include \in IncludeLists,
        dirs \in SUBSET {AssetAXImage, AssetAXColor, AssetInnerX},
        content \in {<<>>, <<Token("UIImage(named:)", Empty, NameX)>>}}

InitInventory ==
    InitWith(InventoryWorlds \cup {UnreadableWorld({FileSwift}, <<>>)}, "start")
    /\ cli \in NoCommand(world)

SpecInventory == InitInventory /\ [][Next]_vars

(***************************************************************************)
(* Scan on files with Swift resource references                            *)
(***************************************************************************)

\* "/r/A/C.xcassets/xColor.colorset"
AssetAXColorSuffix == <<47,114,47,65,47,67,46,120,99,97,115,115,101,116,115,47,120,67,111,108,111,114,46,99,111,108,111,114,115,101,116>>

\* the contents of one .swift file: each direct form, an identifier that keys
\* no asset, a typed variable, a typed return, two references
ResourceLayouts ==
    {<<>>,
     <<Token("UIImage(resource:)", Empty, NameX)>>,
     <<Token("UIColor(resource:)", Empty, NameX)>>,
     <<Token("DataAsset(resource:)", Empty, NameX)>>,
     <<Token("UIColor(resource:)", Empty, NameY)>>,
     <<Token("typed var = .ident", Empty, NameX)>>,
     <<Token("func -> ColorResource", Empty, Empty), Open, Return(NameX), Close>>,
     <<Token("UIColor(resource:)", Empty, NameY), Token("UIImage(resource:)", Empty, NameX)>>}

\* asset sets named x and xColor of two types in the catalog next to the
\* .swift file and in another catalog
ResourceWorlds ==
    {[root |-> Root, include |-> <<>>, exclude |-> <<>>, workers |-> n,
      tree |-> [dirs |-> dirs, files |-> {FileSwift}],
      content |-> [f \in {FileSwift} |-> layout],
      status |-> [f \in {FileSwift} |-> "ok"]] :
        n \in 1..2,
        dirs \in SUBSET {AssetAXImage, AssetAXColor, AssetBXImage, AssetAXColorSuffix},
        layout \in ResourceLayouts}

InitResources ==
    InitWith(ResourceWorlds \cup {UnreadableWorld({FileSwift}, <<>>)}, "start")
    /\ cli \in NoCommand(world)

SpecResources == InitResources /\ [][Next]_vars

\* the asset paths the references of the eligible source files of a world
\* resolve to: what "marked used by some source file" means
MarkedBySources(w) ==
    LET inv == collectAssets(w.root, w.tree, w.include, w.exclude)
        lab == collectSwiftResourceArgumentLabelAssetTypes(w)
    IN  UNION {UNION Range(fileInsertions(inv.discoveredAssets, lab.labels, f, w.content[f], {})) :
                  f \in Range(eligibleSourceFiles(w))}

\* C11: in a successful Result a path is listed under a catalog in
\* UnusedByFile exactly when it is a discovered asset set of that catalog
\* that no source file marked used; every list is sorted without repeats
\* and holds no path that was marked used
C11_UnusedByFileExact ==
    (pc = "done" /\ err = NoError) =>
        LET U == result.UnusedByFile
            listed(c, p) == c \in DOMAIN U /\ p \in Range(U[c])
        IN  /\ \A i \in 1..Len(discoveredAssets) :
                   listed(discoveredAssets[i].CatalogPath, discoveredAssets[i].AssetPath)
                       <=> discoveredAssets[i].AssetPath \notin MarkedBySources(world)
            /\ \A c \in DOMAIN U : \A p \in Range(U[c]) :
                   /\ \E i \in 1..Len(discoveredAssets) :
                          /\ discoveredAssets[i].AssetPath = p
                          /\ discoveredAssets[i].CatalogPath = c
                   /\ p \notin usedSet
            /\ \A c \in DOMAIN U : IsStrictlySorted(U[c])

\* a scan has marked one asset set of a catalog and left two others of the
\* same catalog unused
C11_Witness ==
    /\ pc = "done"
    /\ err = NoError
    /\ usedSet # {}
    /\ \E c \in DOMAIN result.UnusedByFile :
           /\ Len(result.UnusedByFile[c]) >= 2
           /\ \E a \in usedSet : catalogPathForAsset(a) = c

\* the summary identifier of an asset set among the asset sets of a tree:
\* the bare name, or name.type when an asset set of another type has the
\* same name
SummaryIdentifier(assets, a) ==
    IF \E i \in 1..Len(assets) : assets[i].Name = a.Name /\ assets[i].AssetType # a.AssetType
    THEN a.Name \o Dot \o a.AssetType
    ELSE a.Name

\* C12: AssetNames, UsedAssets and UnusedAssets hold the summary identifiers
\* of all, of the used and of the unused asset sets, formed by one rule
\* (bare name, or name.type when types collide on the name), so UsedAssets
\* and UnusedAssets are parts of AssetNames
C12_SummaryIdentifierRule ==
    (pc = "done" /\ err = NoError) =>
        LET ids(S) == {SummaryIdentifier(discoveredAssets, a) : a \in S}
            all == Range(discoveredAssets)
            isUsed == {a \in all : a.AssetPath \in usedSet}
            isUnused == {a \in all : a.AssetPath \notin usedSet}
        IN  /\ Range(result.AssetNames) = ids(all)
            /\ Range(result.UsedAssets) = ids(isUsed)
            /\ Range(result.UnusedAssets) = ids(isUnused)
            /\ Range(result.UsedAssets) \subseteq Range(result.AssetNames)
            /\ Range(result.UnusedAssets) \subseteq Range(result.AssetNames)

\* x.imageset and x.colorset exist, the image is used and the color is not:
\* both are listed with their types
C12_Witness ==
    /\ pc = "done"
    /\ err = NoError
    /\ result.AssetNames = <<<<120,46,99,111,108,111,114,115,101,116>>, <<120,46,105,109,97,103,101,115,101,116>>>>
    /\ result.UsedAssets = <<<<120,46,105,109,97,103,101,115,101,116>>>>
    /\ result.UnusedAssets = <<<<120,46,99,111,108,111,114,115,101,116>>>>

\* the discovered asset sets the scan left unused
UnusedAssetSets == {a \in Range(discoveredAssets) : a.AssetPath \notin usedSet}

\* a command has printed its result
OutputWritten == cli.cmd \in {"unused", "prune"} /\ cli.pc = "done" /\ cli.stdout # <<>>

\* C13 as stated: in every output of "assets unused" and "assets prune"
\* pruneCandidateCount >= unusedCount, and the two are equal exactly when no
\* two unused asset sets of different catalogs have the same name
C13_CountsDifferOnlyAcrossCatalogs ==
    OutputWritten =>
        /\ cli.stdout[1].PruneCandidateCount >= cli.stdout[1].UnusedCount
        /\ (cli.stdout[1].PruneCandidateCount = cli.stdout[1].UnusedCount)
               <=> ~\E a, b \in UnusedAssetSets :
                       /\ a.CatalogPath # b.CatalogPath
                       /\ SummaryIdentifier(discoveredAssets, a) = SummaryIdentifier(discoveredAssets, b)

\* C13 amended: pruneCandidateCount >= unusedCount, and the two are equal
\* exactly when no two unused asset sets have the same summary identifier,
\* be they in different catalogs or in one
C13_CountsDifferOnSharedIdentifier ==
    OutputWritten =>
        /\ cli.stdout[1].PruneCandidateCount >= cli.stdout[1].UnusedCount
        /\ (cli.stdout[1].PruneCandidateCount = cli.stdout[1].UnusedCount)
               <=> ~\E a, b \in UnusedAssetSets :
                       /\ a # b
                       /\ SummaryIdentifier(discoveredAssets, a) = SummaryIdentifier(discoveredAssets, b)

\* "assets unused" has printed one unused name and two prune candidates for
\* two x.imageset of one catalog
C13_Witness ==
    /\ OutputWritten
    /\ cli.cmd = "unused"
    /\ cli.stdout[1].UnusedCount = 1
    /\ cli.stdout[1].PruneCandidateCount = 2
    /\ \A a, b \in UnusedAssetSets : a.CatalogPath = b.CatalogPath

\* C19: "assets unused" exits with 3 exactly when the scan succeeded and left
\* an asset set unused (UnusedByFile is not empty), and with 0 when the scan
\* succeeded and nothing is unused; both times the result is on stdout and
\* nothing on stderr
C19_UnusedExitCode ==
    (cli.cmd = "unused" /\ cli.pc = "done") =>
        LET scanned == pc = "done" /\ err = NoError
        IN  /\ cli.exit = exitUnusedAssets
                <=> (scanned /\ DOMAIN result.UnusedByFile # {})
            /\ (cli.exit = exitUnusedAssets) => UnusedAssetSets # {}
            /\ (scanned /\ DOMAIN result.UnusedByFile = {}) => cli.exit = exitSuccess
            /\ scanned =>
                   /\ cli.stderr = <<>>
                   /\ Len(cli.stdout) = 1
                   /\ cli.stdout[1].Command = "assets unused"
                   /\ cli.stdout[1].Unused = result.UnusedAssets

\* "assets unused" has exited with 3 after a scan that marked one asset set
\* and left another unused
C19_Witness ==
    /\ cli.cmd = "unused" /\ cli.pc = "done"
    /\ cli.exit = exitUnusedAssets
    /\ usedSet # {}
    /\ cli.stdout # <<>>
    /\ cli.stdout[1].UnusedCount = 1
    /\ cli.stderr = <<>>

\* C20: an error of Scan, whatever path or text its message holds, ends the
\* command with exit status 1, a runtime_error envelope on stderr and nothing
\* on stdout, never with a usage_error and exit status 2
C20_ScanErrorIsRuntimeError ==
    (cli.cmd \in {"unused", "prune"} /\ cli.pc = "done" /\ pc = "done" /\ err # NoError) =>
        /\ cli.exit = exitFailure
        /\ cli.stdout = <<>>
        /\ Len(cli.stderr) = 1
        /\ cli.stderr[1].code = "runtime_error"

\* the eligible .swift files of a world
EligibleSwiftFiles(w) == {f \in Range(eligibleSourceFiles(w)) : ToLower(Ext(f)) = SwiftExt}

\* the pairs <<label, asset type>> for which some eligible .swift file
\* declares a parameter with that label typed ImageResource or ColorResource
DeclaredLabels(w) ==
    {<<t.label, IF t.form = "param: ImageResource" THEN Imageset ELSE Colorset>> :
        t \in {t \in UNION {Range(w.content[f]) : f \in EligibleSwiftFiles(w)} :
                  /\ t.form \in {"param: ImageResource", "param: ColorResource"}
                  /\ t.label \notin {Empty, <<95>>}}}

\* the call sites "label: .ident" in the eligible source files of a world
CallSites(w) ==
    {t \in UNION {Range(w.content[f]) : f \in Range(eligibleSourceFiles(w))} :
        t.form = "label: .ident"}

\* C14: when the workers run, the label map holds every parameter label
\* declared in any eligible .swift file; so in the Result a call site
\* "label: .ident" has marked the asset ident of a type exactly when some
\* eligible .swift file, the same or another, earlier or later in the walk,
\* declares the label with the resource type of that asset type
C14_LabelMapCompleteBeforeMatching ==
    /\ (\E w \in Workers : wpc[w] # "idle") => labelAssetTypes = DeclaredLabels(world)
    /\ (pc = "done" /\ err = NoError) =>
           \A a \in Range(discoveredAssets) :
               a.AssetPath \in usedSet
                   <=> \E t \in CallSites(world) :
                           /\ t.arg = a.Name
                           /\ <<t.label, a.AssetType>> \in DeclaredLabels(world)

\* the call site is in the file walked first, the declaration in the file
\* walked second, and x.imageset has been marked while x.colorset has not
C14_Witness ==
    /\ pc = "done"
    /\ err = NoError
    /\ world.content[FileSwift] = <<Token("label: .ident", LabelIcon, NameX)>>
    /\ world.content[FileDecl] = <<Token("param: ImageResource", LabelIcon, Empty)>>
    /\ world.tree.dirs = {AssetAXImage, AssetAXColor}
    /\ usedSet = {AssetAXImage}

\* the entries of the tree that are matched by an exclude pattern or lie
\* below a directory that is
UnderExcluded(w) ==
    {p \in TreeEntries(w.root, w.tree) :
        \E q \in Ancestors(w.root, p) \cup {p} : matchesAny(Rel(w.root, q), w.exclude)}

\* the world without those entries and without exclude patterns
WithoutExcluded(w) ==
    [w EXCEPT !.exclude = <<>>,
              !.tree = [dirs |-> w.tree.dirs \ UnderExcluded(w),
                        files |-> w.tree.files \ UnderExcluded(w)]]

\* C15: what lies under an excluded path contributes nothing: the scan ends
\* as the scan of the tree without it would, no asset set there is
\* discovered, listed or a prune candidate, and a file there is not read
C15_ExcludedSubtreeContributesNothing ==
    pc = "done" =>
        /\ result = ExpectedResult(WithoutExcluded(world))
        /\ err = NoError <=> ReadFailures(WithoutExcluded(world)) = {}
        /\ \A a \in Range(discoveredAssets) : a.AssetPath \notin UnderExcluded(world)
        /\ usedSet \cap UnderExcluded(world) = {}
        /\ \A c \in DOMAIN result.UnusedByFile :
               /\ c \notin UnderExcluded(world)
               /\ Range(result.UnusedByFile[c]) \cap UnderExcluded(world) = {}
        /\ Range(collectPruneTargets(result.UnusedByFile)) \cap UnderExcluded(world) = {}

\* Pods holds a catalog with x.imageset and a file that names the color x;
\* the scan has counted one catalog, and x.colorset outside Pods is unused
C15_Witness ==
    /\ pc = "done"
    /\ err = NoError
    /\ world.tree.dirs = {AssetPodsX, AssetAXColor}
    /\ world.content[FilePods] = <<Token("UIColor(named:)", Empty, NameX)>>
    /\ world.status[FilePods] = "oserr"
    /\ result.AssetCatalogs = 1
    /\ result.AssetNames = <<NameX>>
    /\ result.UnusedAssets = <<NameX>>
    /\ cli.pc = "done"
    /\ cli.stdout[1].PruneCandidateCount = 1

\* the asset-set directories of the tree none of whose ancestors is a
\* directory named *.xcassets
AssetSetsOutsideCatalogs(w) ==
    {p \in TreeDirs(w.root, w.tree) :
        /\ Ext(Base(p)) \in {ImagesetExt, ColorsetExt, DatasetExt}
        /\ \A q \in Ancestors(Empty, p) : ~HasSuffix(q, XcassetsSuffix)}

\* C18: the CatalogPath of every discovered asset is a prefix of its
\* AssetPath and ends in .xcassets; an asset-set directory without a
\* .xcassets ancestor is not discovered, its name is in none of the summary
\* lists and its path is no key and no entry of UnusedByFile
C18_AssetsLieInCatalogs ==
    /\ \A a \in Range(discoveredAssets) :
           /\ HasPrefix(a.AssetPath, a.CatalogPath \o Slash)
           /\ HasSuffix(a.CatalogPath, XcassetsSuffix)
           /\ a.AssetPath \notin AssetSetsOutsideCatalogs(world)
    /\ (pc = "done" /\ err = NoError) =>
           \A p \in AssetSetsOutsideCatalogs(world) :
               /\ (\A a \in Range(discoveredAssets) : a.Name # TrimSuffix(Base(p), Ext(p)))
                      => TrimSuffix(Base(p), Ext(p)) \notin
                             Range(result.AssetNames) \cup Range(result.UsedAssets)
                                 \cup Range(result.UnusedAssets)
               /\ Len(result.AssetNames) <= Len(discoveredAssets)
               /\ \A c \in DOMAIN result.UnusedByFile :
                      /\ ~HasPrefix(p, c)
                      /\ p \notin Range(result.UnusedByFile[c])

\* a tree with x.imageset in a catalog and z.imageset outside every catalog
\* has been scanned: one asset set was discovered
C18_Witness ==
    /\ pc = "done"
    /\ err = NoError
    /\ world.tree.dirs = {AssetAXImage, AssetOutsideZ}
    /\ Len(discoveredAssets) = 1
    /\ result.AssetNames = <<NameX>>

\* a string with every backslash turned into '/'
BackslashToSlash(s) == [i \in 1..Len(s) |-> IF s[i] = 92 THEN 47 ELSE s[i]]

\* a string without its leading "./" and then without its leading "/"
StripLeading(s) == TrimPrefix(TrimPrefix(s, <<46,47>>), <<47>>)

\* matchesAny has returned for a list of patterns that all end in '/'
DirectoryPatternsMatched ==
    /\ cli.cmd = "matchesAny"
    /\ cli.pc = "done"
    /\ \A i \in 1..Len(cli.patterns) : HasSuffix(cli.patterns[i], <<47>>)

\* C16 as stated: for patterns ending in '/' matchesAny is true exactly when
\* the path, its backslashes turned into '/' and its leading "./" and "/"
\* stripped, equals a pattern without its trailing slash or starts with the
\* pattern; never on a substring; and never for an empty pattern list
C16_DirectoryPatternIsPrefixOfBackslashNormalizedPath ==
    DirectoryPatternsMatched =>
        LET normalized == StripLeading(BackslashToSlash(cli.candidatePath))
        IN  cli.matched
                <=> \E i \in 1..Len(cli.patterns) :
                        \/ normalized = TrimSuffix(cli.patterns[i], <<47>>)
                        \/ HasPrefix(normalized, cli.patterns[i])

\* C16 amended: both the path and the pattern are normalized, by turning the
\* separator of the platform (not the backslash, where '/' is the separator)
\* into '/' and stripping a leading "./" and "/", the pattern after trimming
\* white space; for patterns that then end in '/' matchesAny is true exactly
\* when the path equals a pattern without its trailing slash or starts with
\* the pattern; it never matches on a substring, and never for an empty list
C16_DirectoryPatternIsPrefixOfNormalizedPath ==
    (cli.cmd = "matchesAny" /\ cli.pc = "done") =>
        LET normalized == StripLeading(ToSlash(cli.candidatePath))
            pattern(i) == StripLeading(ToSlash(TrimSpace(cli.patterns[i])))
        IN  /\ (\A i \in 1..Len(cli.patterns) : HasSuffix(pattern(i), <<47>>))
                   => (cli.matched
                          <=> \E i \in 1..Len(cli.patterns) :
                                  \/ normalized = TrimSuffix(pattern(i), <<47>>)
                                  \/ HasPrefix(normalized, pattern(i)))
            /\ (cli.patterns = <<DirectoryPattern>>
                    /\ HasPrefix(cli.candidatePath, <<77,121,69,120,116,101,114,110,97,108,76,105,98,47>>)) => ~cli.matched
            /\ cli.patterns = <<>> => ~cli.matched

\* "ExternalLib/" has matched a path below ExternalLib that was given with a
\* leading "./"
C16_Witness ==
    /\ cli.cmd = "matchesAny"
    /\ cli.pc = "done"
    /\ cli.patterns = <<<<32,69,120,116,101,114,110,97,108,76,105,98,47,32>>>>
    /\ cli.candidatePath = <<46,47,69,120,116,101,114,110,97,108,76,105,98,47,97>>
    /\ cli.matched

\* C17: "Sources/**/*.swift" matches every .swift path two or more segments
\* below Sources/, Sources/App/Features/Home/View.swift among them
C17_GlobstarMatchesNestedSegments ==
    (/\ cli.cmd = "matchesAny"
     /\ cli.pc = "done"
     /\ cli.patterns = <<GlobstarPattern>>
     /\ HasPrefix(cli.candidatePath, <<83,111,117,114,99,101,115,47>>)
     /\ HasSuffix(cli.candidatePath, SwiftExt)
     /\ Len(SplitSlash(cli.candidatePath)) >= 3)
        => cli.matched

(***************************************************************************)
(* Claims C21..C30                                                         *)
(***************************************************************************)

\* the camel-case form built rune by rune: the first token lower-cased, then
\* every later token with its first rune upper-cased
RECURSIVE CamelTailPerRune(_)
CamelTailPerRune(parts) ==
    IF parts = <<>> THEN <<>>
    ELSE LET d == DecodeRune(parts[1], 1)
         IN  EncodeRune(UpperRune(d.r)) \o Slice(parts[1], d.w, Len(parts[1]))
             \o CamelTailPerRune(Tail(parts))

CamelizedPerRune(assetName) ==
    LET parts == Fields(assetName)
    IN  IF parts = <<>> THEN assetName
        ELSE ToLower(parts[1]) \o CamelTailPerRune(Tail(parts))

\* a finished call of swiftResourceCandidatesForAsset
CandidatesReturned == cli.cmd = "candidates" /\ cli.pc = "done"

\* C21: the camelized candidate is built per Unicode letter: for a name that
\* is valid UTF-8 the candidates contain the form whose later tokens have their
\* first rune upper-cased, and every candidate is valid UTF-8
C21_CamelizedPerRune ==
    (CandidatesReturned /\ ValidString(cli.assetName) /\ cli.assetName # Empty)
    => /\ CamelizedPerRune(cli.assetName) \in Range(cli.candidates)
       /\ \A c \in Range(cli.candidates) : ValidString(c)

\* C22: when several errors occur during one Scan, the error Scan returns is
\* the one that occurred first: a read error after the walk has failed does
\* not replace the walk error, nor a later read error an earlier one
C22_FirstErrorReturned ==
    (pc = "done" /\ err # NoError) => err = firstErr

\* worker w takes a path from the queue in this step
Takes(w) == wpc[w] = "recv" /\ wpc'[w] = "read"

\* the walker puts the next path of the walk at the end of the queue
Sends ==
    /\ pending # <<>>
    /\ fileCh' = Append(fileCh, Head(pending))
    /\ pending' = Tail(pending)
    /\ wpath' = wpath

\* C23: the queue never holds more than 2N paths. The walk starts with
\* every eligible source file to send, each once; a path leaves the walk only
\* by being put on the queue, which happens only while the queue holds fewer
\* than 2N paths (on a full queue the walker waits and drops nothing), unless
\* the walk fails; a path leaves the queue only as its head, in a step of
\* exactly one worker, which is then the one worker that holds it; and when
\* the walk has finished without error Scan aggregates only after the queue
\* is empty and every worker has finished
C23_QueueBoundedAndEveryFileTakenOnce ==
    [][/\ Len(fileCh') <= 2 * world.workers
       /\ (pc = "start" /\ pc' = "walk") =>
              /\ pending' = eligibleSourceFiles(world)
              /\ Cardinality(Range(pending')) = Len(pending')
              /\ fileCh' = <<>>
       /\ (pc # "start" /\ pending' # pending) =>
              \/ Sends /\ Len(fileCh) < 2 * world.workers
              \/ pending' = <<>> /\ fileCh' = fileCh /\ walkErr' # NoError
       /\ fileCh' # fileCh =>
              \/ Sends
              \/ /\ fileCh # <<>>
                 /\ fileCh' = Tail(fileCh)
                 /\ pending' = pending
                 /\ \E w \in Workers :
                        /\ Takes(w)
                        /\ wpath' = [wpath EXCEPT ![w] = Head(fileCh)]
                        /\ \A v \in Workers \ {w} : wpc'[v] = wpc[v]
       /\ wpath' # wpath => (fileCh # <<>> /\ fileCh' = Tail(fileCh))
       /\ (pc = "wait" /\ pc' = "done" /\ walkErr = NoError) =>
              /\ fileCh = <<>> /\ pending = <<>>
              /\ \A w \in Workers : wpc[w] = "exit"
      ]_vars

\* the queue of two workers is full while the walk still has a path to send
C23_Witness ==
    /\ pc = "walk"
    /\ world.workers = 2
    /\ Len(fileCh) = 2 * world.workers
    /\ pending # <<>>
    /\ walkErr = NoError

\* the workers inside an insertion into the used-set
Inserting == {w \in Workers : wpc[w] = "insert"}

\* C24: an insertion into the used-set happens in a step of the worker that
\* holds the mutex, which it releases with it; at most one worker is inside an
\* insertion at a time and it is the holder of the mutex; apart from the
\* used-set and the error slot a step of a worker writes only that worker's
\* own data; the error slot is written while it is empty, by a worker that
\* publishes the read error it has in hand; the inventory, from which the
\* candidate index is built, and the label map are written only before the
\* workers start; and the aggregation reads the used-set after every worker
\* has finished
C24_SharedStateGuarded ==
    [][/\ usedSet' # usedSet =>
              \E w \in Workers :
                  /\ wpc[w] = "insert" /\ usedMu = w /\ usedMu' = 0
                  /\ wpc'[w] # "insert"
                  /\ \A v \in Workers \ {w} : wpc'[v] = wpc[v]
       /\ Cardinality(Inserting) <= 1
       /\ \A w \in Inserting : usedMu = w
       /\ usedMu # 0 => usedMu \in Inserting
       /\ pc # "start" =>
              /\ Cardinality({w \in Workers : wpc'[w] # wpc[w]}) <= 1
              /\ \A w \in Workers :
                     (wpath'[w] # wpath[w] \/ wins'[w] # wins[w] \/ werr'[w] # werr[w])
                         => wpc'[w] # wpc[w]
              /\ discoveredAssets' = discoveredAssets
              /\ assetCatalogs' = assetCatalogs
              /\ labelAssetTypes' = labelAssetTypes
       /\ (errCh' # errCh /\ pc' # "done") =>
              /\ errCh = <<>> /\ Len(errCh') = 1
              /\ \E w \in Workers :
                     wpc[w] = "publish" /\ wpc'[w] # "publish" /\ errCh' = <<werr[w]>>
       /\ result' # result =>
              /\ \A w \in Workers : wpc[w] = "exit"
              /\ usedMu = 0
              /\ usedSet' = usedSet
      ]_vars

\* one worker is inside an insertion and holds the mutex while the other
\* waits for it, and the used-set already holds a path
C24_Witness ==
    /\ world.workers = 2
    /\ wpc[1] = "insert" /\ usedMu = 1
    /\ wpc[2] = "lock"
    /\ wins[2] # <<>>

\* the enum members returned inside the own body of a declaration whose
\* declared type is ImageResource or ColorResource: the body is the
\* brace-balanced block that starts right after the head
ReturnedFromResourceBodies(content) ==
    LET heads == {i \in 1..Len(content) :
                     \/ content[i].form = "var: ImageResource {"
                     \/ /\ content[i].form \in {"func -> ImageResource", "func -> ColorResource"}
                        /\ i < Len(content) /\ content[i + 1].form = "{"}
        open(i) == IF content[i].form = "var: ImageResource {" THEN i ELSE i + 1
        close(i) == findMatchingBrace(content, open(i), 0)
    IN  {content[k].arg : k \in {k \in 1..Len(content) :
                                    /\ content[k].form = "return .ident"
                                    /\ \E i \in heads : close(i) # 0 /\ open(i) < k /\ k < close(i)}}

\* C25: enum members after return are collected only from the body of a
\* function or computed property declared ImageResource or ColorResource: in
\* every file layout the asset sets a finished scan has marked are those the
\* members returned in such bodies resolve to, so a return .member in a body
\* with another return type marks nothing
C25_ReturnMembersScopedToResourceBodies ==
    (pc = "done" /\ err = NoError /\ world.content[FileSwift] \in ReturnLayouts) =>
        usedSet = UNION {{a.AssetPath : a \in Range(selectClosestAssets(FileSwift,
                                swiftResourceCandidates(discoveredAssets, ident)))} :
                         ident \in ReturnedFromResourceBodies(world.content[FileSwift])}

\* the directories of the tree that lie inside an asset-set directory
InsideAssetSet(w) ==
    {p \in TreeDirs(w.root, w.tree) :
        \E d \in Ancestors(w.root, p) : isAssetSetDir(Base(d))}

\* C26: the inventory walk does not descend into an asset-set directory: no
\* discovered asset lies inside another asset-set directory, and no catalog
\* inside an asset-set directory is counted
C26_NoDescentIntoAssetSets ==
    /\ \A i \in 1..Len(discoveredAssets) :
           discoveredAssets[i].AssetPath \notin InsideAssetSet(world)
    /\ assetCatalogs <= Cardinality({p \in TreeDirs(world.root, world.tree) \ InsideAssetSet(world) :
                                        HasSuffix(Base(p), XcassetsSuffix)})

\* the nearest enclosing catalog of a path: its longest proper prefix that
\* is a directory whose name ends in .xcassets
NearestCatalog(root, p) ==
    LET catalogs == {d \in Ancestors(root, p) : HasSuffix(d, XcassetsSuffix)}
    IN  IF catalogs = {} THEN Empty
        ELSE CHOOSE d \in catalogs : \A e \in catalogs : Len(e) <= Len(d)

\* C27: the CatalogPath of a discovered asset is its nearest enclosing
\* .xcassets directory, the longest prefix of AssetPath that ends in
\* .xcassets; it is the key the asset is grouped under in UnusedByFile
C27_CatalogPathIsNearestCatalog ==
    /\ \A i \in 1..Len(discoveredAssets) :
           discoveredAssets[i].CatalogPath =
               NearestCatalog(world.root, discoveredAssets[i].AssetPath)
    /\ (pc = "done" /\ err = NoError) =>
           \A c \in DOMAIN result.UnusedByFile :
               \A p \in Range(result.UnusedByFile[c]) : c = NearestCatalog(world.root, p)

\* the directories a scan with include patterns takes into its inventory:
\* those whose own path relative to the root matches a pattern; all of them
\* when there is no pattern
IncludedDirs(w) ==
    {p \in TreeDirs(w.root, w.tree) :
        Len(w.include) = 0 \/ matchesAny(Rel(w.root, p), w.include)}

\* C30: with include patterns the inventory counts a .xcassets directory and
\* discovers an asset-set directory exactly when the directory's own relative
\* path matches a pattern, whether or not the directories above it match;
\* with the include list App/*.swift (here A/*.swift), which matches source
\* files only, Scan reports no catalog, no asset and nothing unused
C30_IncludeAppliesToEachDirectory ==
    (pc # "start" /\ world \in InventoryWorlds) =>
        /\ assetCatalogs =
               Cardinality({p \in IncludedDirs(world) : HasSuffix(Base(p), XcassetsSuffix)})
        /\ {discoveredAssets[i].AssetPath : i \in 1..Len(discoveredAssets)} =
               {p \in IncludedDirs(world) :
                   /\ isAssetSetDir(Base(p))
                   /\ \E d \in Ancestors(world.root, p) : HasSuffix(d, XcassetsSuffix)}
        /\ (pc = "done" /\ world.include = <<<<65,47,42,46,115,119,105,102,116>>>>) =>
               /\ err = NoError
               /\ result.AssetCatalogs = 0
               /\ result.AssetNames = <<>>
               /\ result.UsedAssets = <<>>
               /\ result.UnusedAssets = <<>>
               /\ DOMAIN result.UnusedByFile = {}

\* a finished scan whose include list names one asset-set directory only:
\* the directories above it do not match and are not counted, yet the walk
\* has descended through them and discovered the asset set
C30_Witness ==
    /\ pc = "done" /\ err = NoError
    /\ world.include = <<<<65,47,67,46,120,99,97,115,115,101,116,115,47,120,46,105,109,97,103,101,115,101,116>>>>
    /\ world.tree.dirs = {AssetAXImage, AssetAXColor, AssetInnerX}
    /\ result.AssetCatalogs = 0
    /\ result.AssetNames = <<<<120>>>>
    /\ result.UnusedAssets = <<<<120>>>>

\* C28: in the JSON of assets unused every display name of an unusedByFile
\* entry is also in the top-level unused list, also when an asset set of the
\* same name and another type is used or lies in another catalog
C28_UnusedByFileNamesInUnusedList ==
    (cli.cmd = "unused" /\ cli.pc = "done" /\ cli.stdout # <<>>) =>
        \A c \in DOMAIN cli.stdout[1].UnusedByFile :
            Range(cli.stdout[1].UnusedByFile[c].UnusedAssets) \subseteq Range(cli.stdout[1].Unused)

\* the identifiers the Swift resource matchers find in a file
ResourceIdentifiers(content) ==
    {content[k].arg : k \in {k \in 1..Len(content) :
        content[k].form \in {"UIImage(resource:)", "UIColor(resource:)",
                             "DataAsset(resource:)", "typed var = .ident"}}}
    \cup ReturnedFromResourceBodies(content)

\* the discovered assets of any type that have the identifier as a candidate
KeyedBy(ident) ==
    {a \in Range(discoveredAssets) :
        ident \in Range(swiftResourceCandidatesForAsset(a.Name, a.AssetType))}

\* those of a set of assets whose catalog is closest to the source file
ClosestTo(sourcePath, assets) ==
    {a \in assets : \A b \in assets :
        commonPathPrefixSegments(sourcePath, a.CatalogPath)
            >= commonPathPrefixSegments(sourcePath, b.CatalogPath)}

\* C29: an identifier found by a Swift resource matcher marks the
\* locality-closest subset of all the assets that have it as a candidate,
\* whatever their asset type and whatever the type named in the reference; an
\* identifier that keys no asset marks nothing
C29_ResourceIdentifiersIgnoreAssetType ==
    (pc = "done" /\ err = NoError /\ world.content[FileSwift] \in ResourceLayouts) =>
        usedSet = UNION {{a.AssetPath : a \in ClosestTo(FileSwift, KeyedBy(ident))} :
                         ident \in ResourceIdentifiers(world.content[FileSwift])}

\* UIColor(resource: .x) has marked x.imageset, x.colorset and xColor.colorset
\* of the catalog next to the file and not x.imageset of the other catalog
C29_Witness ==
    /\ pc = "done" /\ err = NoError
    /\ world.content[FileSwift] = <<Token("UIColor(resource:)", Empty, NameX)>>
    /\ world.tree.dirs = {AssetAXImage, AssetAXColor, AssetBXImage, AssetAXColorSuffix}
    /\ usedSet = {AssetAXImage, AssetAXColor, AssetAXColorSuffix}
====
